---------------------------- MODULE Spec2Model ----------------------------
(***************************************************************************)
(* Funtonic task server: executor registry, executor key stores (TOFU),    *)
(* signed payload verification, LaunchTask fan-out, the GetTasks stream,   *)
(* the TaskExecution relay, the executor main loop and the commander's     *)
(* per-executor state.                                                     *)
(***************************************************************************)
EXTENDS Integers, Sequences, FiniteSets, TLC

(***************************************************************************)
(* Bounds of the model.                                                    *)
(***************************************************************************)
\* number of inbox channels (GetTasks sessions) ever created
MaxSessions == 2
\* number of LaunchTask calls that pass authentication and parsing
MaxDispatches == 1

(***************************************************************************)
(* Identities.  A key pair is named by one token: a payload signed with    *)
(* the private half of k verifies exactly against the public bytes k.      *)
(***************************************************************************)
Clients == {"e1", "e2"}
NoKey == "none"
\* the key pair each executor process holds
ExecutorKey == [c \in Clients |-> IF c = "e1" THEN "ke1" ELSE "ke2"]
\* a second key pair, used by an executor that changed its key
RotatedKey == "kf"
ExecutorKeyBytes == {ExecutorKey[c] : c \in Clients} \cup {RotatedKey}

\* the seconds a signature stays valid
ValiditySecs == 60
\* the units of the system clock in one second
NanosPerSec == 4
\* the last second of the clock in the signing specification
MaxClockSecs == 4
\* the length of the inputs of the parser that are enumerated exhaustively
MaxInputLen == 4
\* the instants the clock takes: signing time, the last valid second, one later
Times == {0, ValiditySecs, ValiditySecs + 1}

PROTOCOL_VERSION == "v1"
Versions == {"v1", "v0"}

\* server configuration of the keys test: key id -> public key bytes
authorized_keys ==
    [id \in {"regular", "ultimate", "not_in_executor"} |->
        CASE id = "regular" -> "kr"
          [] id = "ultimate" -> "ku"
          [] OTHER -> "kn"]
authorized_admin_keys ==
    [id \in {"admin", "ultimate"} |-> IF id = "admin" THEN "ka" ELSE "ku"]
\* the authorized_keys of the executors' configuration at start
ExecutorAuthorizedKeys ==
    [id \in {"regular", "ultimate"} |-> IF id = "regular" THEN "kr" ELSE "ku"]

(***************************************************************************)
(* Signed payloads.  key_id and signer are the envelope's key id and the   *)
(* key pair that produced the signature; kind/arg/ver are the decoded      *)
(* message.                                                                *)
(***************************************************************************)
SignedPayload(key_id, signer, valid_until, kind, arg, ver) ==
    [key_id |-> key_id, signer |-> signer, valid_until |-> valid_until,
     kind |-> kind, arg |-> arg, ver |-> ver]

\* the argument of a message: a parsed query and a name (client id or key id)
NoQuery == [t |-> "NoQuery"]
Arg(q, id) == [q |-> q, id |-> id, key |-> NoKey]
KeyArg(q, id, key) == [q |-> q, id |-> id, key |-> key]

\* The system clock counts units of 1/NanosPerSec second; an instant and a
\* duration are numbers of units.  Duration::from_secs and Duration::as_secs
\* (the latter drops the part below the second).
from_secs(secs) == secs * NanosPerSec
as_secs(d) == d \div NanosPerSec

\* encode_and_sign at the instant `at` of the system clock, with the duration
\* validity: valid_until_secs is the whole seconds of at + validity
encode_and_sign_at(kind, arg, ver, key_id, signer, validity, at) ==
    SignedPayload(key_id, signer, as_secs(at + validity), kind, arg, ver)

\* encode_and_sign with the validity of the callers, at the whole second t
encode_and_sign(kind, arg, ver, key_id, signer, t) ==
    encode_and_sign_at(kind, arg, ver, key_id, signer, from_secs(ValiditySecs),
                       from_secs(t))

verify_signature(db, key_id, signer) ==
    IF key_id \notin DOMAIN db THEN "KeyNotFound"
    ELSE IF db[key_id] # signer THEN "WrongSignature"
    ELSE "Ok"

\* a mutant of decode_payload: the signature is looked at before the time limit
decode_payload_at_signature_first(db, p, at) ==
    IF verify_signature(db, p.key_id, p.signer) # "Ok"
    THEN verify_signature(db, p.key_id, p.signer)
    ELSE IF from_secs(p.valid_until) < at THEN "ExpiredSignature"
    ELSE "Ok"

\* KeyStore::decode_payload at the instant `at` of the system clock: "Ok" or the
\* KeyStoreError.  valid_until is the instant of the whole second
\* valid_until_secs, and it is compared with the clock as it is read.
decode_payload_at(db, p, at) ==
    IF from_secs(p.valid_until) < at THEN "ExpiredSignature"
    ELSE verify_signature(db, p.key_id, p.signer)

\* KeyStore::decode_payload at the whole second t
decode_payload(db, p, t) == decode_payload_at(db, p, from_secs(t))

\* the message decode_payload returns when it succeeds: P::decode of the payload
decoded(p) == [kind |-> p.kind, arg |-> p.arg, ver |-> p.ver]

\* impl From<KeyStoreError> for Status
StatusFromKeyStoreError(e) == "Internal"

\* a file key store as the map it holds; has_key
has_key(db, key_id, key_bytes) ==
    key_id \in DOMAIN db /\ db[key_id] = key_bytes

\* HashMap insert / remove
MapInsert(m, k, v) == [x \in DOMAIN m \cup {k} |-> IF x = k THEN v ELSE m[x]]
MapRemove(m, k) == [x \in DOMAIN m \ {k} |-> m[x]]
Range(f) == {f[x] : x \in DOMAIN f}
EmptyMap == [x \in {} |-> NoKey]

\* KeyStoreBackend insert_key / remove_key on the map the store holds
register_key(db, key_id, key_bytes) == MapInsert(db, key_id, key_bytes)
remove_key(db, key_id) == MapRemove(db, key_id)

(***************************************************************************)
(* Queries and the three-valued matcher.                                   *)
(***************************************************************************)
Pattern(s) == [t |-> "Pattern", s |-> s]
FieldPattern(f, q) == [t |-> "FieldPattern", f |-> f, q |-> q]
Wildcard == [t |-> "Wildcard"]
And(cs) == [t |-> "And", cs |-> cs]
Or(cs) == [t |-> "Or", cs |-> cs]
Not(q) == [t |-> "Not", q |-> q]

TagValue(v) == [t |-> "Value", v |-> v]
TagMap(m) == [t |-> "Map", m |-> m]
TagList(l) == [t |-> "List", l |-> l]

Match == "Match"
NoMatch == "NoMatch"
Rejected == "Rejected"

\* a mutant of matches: Rejected selects as well
matches_unless_nomatch(r) == r # NoMatch

\* MatchResult::matches
matches(r) == r = Match

FromBool(b) == IF b THEN Match ELSE NoMatch

\* impl Not for MatchResult
NotResult(r) == IF r = Match THEN Rejected ELSE Match

\* a mutant of BitAnd: NoMatch on the left decides
BitAnd_left_nomatch(l, r) ==
    CASE l = Match -> r
      [] l = NoMatch -> NoMatch
      [] OTHER -> Rejected

\* impl BitAnd for MatchResult
BitAnd(l, r) ==
    CASE l = Match -> r
      [] l = NoMatch -> (IF r = Rejected THEN Rejected ELSE NoMatch)
      [] OTHER -> Rejected

\* impl BitOr for MatchResult
BitOr(l, r) ==
    CASE l = Match -> Match
      [] l = NoMatch -> r
      [] OTHER -> (IF r = Match THEN Match ELSE Rejected)

\* a mutant of BitXor: Rejected does not prevail
BitXor_as_or(l, r) == BitOr(l, r)

\* impl BitXor for MatchResult
BitXor(l, r) == IF l = Rejected \/ r = Rejected THEN Rejected ELSE BitOr(l, r)

\* iter().fold(m, |m, x| m & x) over rs[i..n], and the same with | and ^
RECURSIVE FoldBitAnd(_, _, _, _)
FoldBitAnd(m, rs, i, n) ==
    IF i > n THEN m ELSE FoldBitAnd(BitAnd(m, rs[i]), rs, i + 1, n)

RECURSIVE FoldBitOr(_, _, _, _)
FoldBitOr(m, rs, i, n) ==
    IF i > n THEN m ELSE FoldBitOr(BitOr(m, rs[i]), rs, i + 1, n)

RECURSIVE FoldBitXor(_, _, _, _)
FoldBitXor(m, rs, i, n) ==
    IF i > n THEN m ELSE FoldBitXor(BitXor(m, rs[i]), rs, i + 1, n)

\* QueryMatcher for &str (Value), FieldExtractable (Map) and &[Q] (List)
RECURSIVE qmatches(_, _)
qmatches(x, q) ==
    IF x.t = "List"
    THEN LET n == Len(x.l)
             each(qq) == [j \in 1..n |-> qmatches(x.l[j], qq)]
         IN  CASE q.t = "Wildcard" -> Match
               [] q.t = "And" ->
                    FoldBitAnd(Match,
                        [i \in 1..Len(q.cs) |->
                            FoldBitXor(NoMatch, each(q.cs[i]), 1, n)],
                        1, Len(q.cs))
               [] q.t = "Or" ->
                    FoldBitOr(NoMatch,
                        [i \in 1..Len(q.cs) |->
                            FoldBitOr(NoMatch, each(q.cs[i]), 1, n)],
                        1, Len(q.cs))
               [] q.t = "Not" -> FoldBitAnd(Match, each(q), 1, n)
               [] OTHER -> FoldBitOr(NoMatch, each(q), 1, n)
    ELSE CASE q.t = "Pattern" ->
                (IF x.t = "Value" THEN FromBool(q.s = x.v) ELSE NoMatch)
           [] q.t = "FieldPattern" ->
                (IF x.t = "Map" /\ q.f \in DOMAIN x.m
                 THEN qmatches(x.m[q.f], q.q) ELSE NoMatch)
           [] q.t = "Wildcard" -> Match
           [] q.t = "And" ->
                FoldBitAnd(Match, [i \in 1..Len(q.cs) |-> qmatches(x, q.cs[i])],
                           1, Len(q.cs))
           [] q.t = "Or" ->
                FoldBitOr(NoMatch, [i \in 1..Len(q.cs) |-> qmatches(x, q.cs[i])],
                          1, Len(q.cs))
           [] OTHER -> NotResult(qmatches(x, q.q))

\* ExecutorMeta: client_id and tags (the version takes no part in matching)
ExecutorMeta(client_id, tags) == [client_id |-> client_id, tags |-> tags]

\* a mutant of the matcher of ExecutorMeta: only the tags are matched
qmatches_meta_tags_only(meta, q) == qmatches(TagMap(meta.tags), q)

\* QueryMatcher for ExecutorMeta
qmatches_meta(meta, q) ==
    qmatches(TagList(<<TagValue(meta.client_id), TagMap(meta.tags)>>), q)

\* the tags of each executor's configuration
TagsOf(c) == [f \in {"env"} |-> TagValue(IF c = "e1" THEN "prod" ELSE "dev")]

\* what parse returns for the predicates the commanders send
ParseError == [t |-> "ParseError"]

\* a path without a file
NoFile == [exists |-> FALSE, text |-> {}]
\* the state of a file-backed key store before file_keystore is called: no
\* file, no handle (open), no call in progress (saves: the calls that have
\* changed the map and have not saved it yet); before is the map the last
\* handle held when it was dropped
NoKeyStore ==
    [file |-> NoFile, open |-> FALSE, db |-> EmptyMap, saves |-> 0,
     before |-> EmptyMap]

\* the Yaml text of a map: one entry per key id ...
Yaml_serialize(db) == {<<k, db[k]>> : k \in DOMAIN db}
\* ... and the map read from a text
Yaml_deserialize(text) ==
    [k \in {e[1] : e \in text} |-> (CHOOSE e \in text : e[1] = k)[2]]

\* a mutant of save: the file is left as it is
save_nothing(file, db) == file

\* FileDatabase::save: the file is rewritten with the whole map
save(file, db) == [exists |-> TRUE, text |-> Yaml_serialize(db)]

\* FileDatabase::load
load(file) == Yaml_deserialize(file.text)

\* the state before exec_command is called
NoExec ==
    [st |-> "none", prog |-> <<>>, code |-> 0, child |-> "none",
     pipe |-> [ty \in {"Out", "Err"} |-> <<>>],
     reader |-> [ty \in {"Out", "Err"} |-> "none"],
     waiter |-> "none", events |-> <<>>, written |-> <<>>]

(***************************************************************************)
(* State.                                                                  *)
(***************************************************************************)
VARIABLES
    now,                          \* the clock, in seconds
    trusted_executor_keystore,    \* client_id -> key bytes
    unapproved_executor_keystore, \* client_id -> key bytes
    executor_meta_database,       \* known executors: client_id -> ExecutorMeta
    database_file,                \* the known executors as saved in the database file
    executors,                    \* connected executors: client_id -> inbox channel
    chan,                         \* the inbox channels, one per admitted GetTasks session
    tasks_sinks,                  \* task_id -> dispatch whose reply stream it feeds
    tasks,                        \* per issued task id: its session, dispatch and relay state
    launch,                       \* the LaunchTask calls that reached the fan-out
    exe,                          \* the executor processes
    drop,                         \* the DropExecutor handler in progress
    reply,                        \* the last error or unary response returned by the server
    keystore,                     \* a file-backed key store: its file and the handle a process holds
    exec                          \* a command run by exec_command: the child, its pipes, the three tasks

vars == <<now, trusted_executor_keystore, unapproved_executor_keystore,
          executor_meta_database, database_file, executors, chan, tasks_sinks, tasks, launch,
          exe, drop, reply, keystore, exec>>

keyVars == <<trusted_executor_keystore, unapproved_executor_keystore>>
registryVars == <<executor_meta_database, executors>>

NoBody == {}
Reply(op, status, p, body) ==
    [op |-> op, status |-> status, p |-> p, pk |-> NoKey, body |-> body]

NoPayload == SignedPayload("", NoKey, 0, "", Arg(NoQuery, ""), "")

Init ==
    /\ now = 0
    /\ trusted_executor_keystore = EmptyMap
    /\ unapproved_executor_keystore = EmptyMap
    /\ executor_meta_database = [x \in {} |-> ExecutorMeta("", TagsOf("e1"))]
    /\ database_file = executor_meta_database
    /\ executors = [x \in {} |-> 0]
    /\ chan = <<>>
    /\ tasks_sinks = [x \in {} |-> 0]
    /\ tasks = <<>>
    /\ launch = <<>>
    /\ exe = [c \in Clients |->
                [st |-> "down", ch |-> 0, key |-> ExecutorKey[c],
                 ks |-> ExecutorAuthorizedKeys, wait |-> 0, mod |-> "None",
                 spawned |-> {}]]
    /\ drop = [pc |-> "idle", p |-> NoPayload, todo |-> {}, cur |-> "",
               rk |-> FALSE, done |-> {}, cut |-> [x \in {} |-> 0]]
    /\ reply = [op |-> "", status |-> "", p |-> NoPayload, pk |-> NoKey,
                body |-> NoBody]
    /\ keystore = NoKeyStore
    /\ exec = NoExec

\* the clock advances to t
Tick(t) ==
    /\ t > now
    /\ now' = t
    /\ UNCHANGED <<trusted_executor_keystore, unapproved_executor_keystore,
                   executor_meta_database, database_file, executors, chan,
                   tasks_sinks, tasks, launch, exe, drop, reply, keystore, exec>>

(***************************************************************************)
(* Executor key handling (trust on first use) and approval.                *)
(***************************************************************************)
\* handle_executor_key: does the handshake proceed ...
key_trusted(trusted, unapproved, client_id, public_key) ==
    has_key(trusted, client_id, public_key)

\* ... and the unapproved store it leaves
handle_executor_key(trusted, unapproved, client_id, public_key) ==
    IF has_key(trusted, client_id, public_key) THEN unapproved
    ELSE IF has_key(unapproved, client_id, public_key) THEN unapproved
    ELSE register_key(unapproved, client_id, public_key)

\* approve_executor_key: the pending key of client_id moves to the trusted store
approve_executor_key(stores, client_id) ==
    IF client_id \in DOMAIN stores.unapproved
    THEN [trusted |-> register_key(stores.trusted, client_id,
                                   stores.unapproved[client_id]),
          unapproved |-> remove_key(stores.unapproved, client_id)]
    ELSE stores

\* approve_executor_key called for each id of a list
RECURSIVE approve_each(_, _)
approve_each(stores, ids) ==
    IF ids = {} THEN stores
    ELSE LET id == CHOOSE x \in ids : TRUE
         IN  approve_each(approve_executor_key(stores, id), ids \ {id})

\* the status handle_executor_key rejects with
handle_executor_key_error == "PermissionDenied"

(***************************************************************************)
(* GetTasks: handshake, registration, the response stream.                 *)
(***************************************************************************)
\* a mutant of get_tasks_status: the presented public key is not looked at
get_tasks_status_any_key(client_id, public_key, req) ==
    IF decode_payload(trusted_executor_keystore, req, now) # "Ok"
    THEN StatusFromKeyStoreError(decode_payload(trusted_executor_keystore, req, now))
    ELSE IF req.ver # PROTOCOL_VERSION THEN "FailedPrecondition"
    ELSE "Ok"

\* a mutant of get_tasks: the protocol version is not compared
get_tasks_status_any_version(client_id, public_key, req) ==
    IF ~key_trusted(trusted_executor_keystore, unapproved_executor_keystore,
                    client_id, public_key)
    THEN handle_executor_key_error
    ELSE IF decode_payload(trusted_executor_keystore, req, now) # "Ok"
    THEN StatusFromKeyStoreError(decode_payload(trusted_executor_keystore, req, now))
    ELSE "Ok"

\* get_tasks up to the registration: the status of its early return, or "Ok"
get_tasks_status(client_id, public_key, req) ==
    IF ~key_trusted(trusted_executor_keystore, unapproved_executor_keystore,
                    client_id, public_key)
    THEN handle_executor_key_error
    ELSE IF decode_payload(trusted_executor_keystore, req, now) # "Ok"
    THEN StatusFromKeyStoreError(decode_payload(trusted_executor_keystore, req, now))
    ELSE IF req.ver # PROTOCOL_VERSION THEN "FailedPrecondition"
    ELSE "Ok"

\* the RegisterExecutorRequest of do_executor_main: the signing key's id is the
\* client_id; the request is signed when it is sent
RegisterExecutorRequest(c, signer, ver) ==
    encode_and_sign("GetTasks", Arg(NoQuery, c), ver, c, signer, now)

\* get_tasks, through the insertion into the connected map (the first statement
\* of register_executor).  Process c sends the RegisterExecutorRequest with
\* the fields client_id and public_key and the signed GetTasksRequest req; the
\* executor is registered under the client_id inside req.
get_tasks_request(c, client_id, public_key, req) ==
    /\ exe[c].st = "down"
    /\ LET status == get_tasks_status(client_id, public_key, req)
           ch == Len(chan) + 1
       IN  /\ unapproved_executor_keystore' =
                 handle_executor_key(trusted_executor_keystore,
                                     unapproved_executor_keystore, client_id,
                                     public_key)
           /\ IF status = "Ok"
              THEN /\ ch <= MaxSessions
                   /\ chan' = Append(chan,
                         [owner |-> c, client_id |-> req.arg.id,
                          public_key |-> public_key, outer |-> client_id,
                          key_id |-> req.key_id, signer |-> req.signer,
                          st |-> "registering", q |-> <<>>, out |-> <<>>])
                   /\ executors' = MapInsert(executors, req.arg.id, ch)
                   /\ exe' = [exe EXCEPT ![c].st = "connecting", ![c].ch = ch,
                                          ![c].key = req.signer]
                   /\ UNCHANGED reply
              ELSE /\ reply' = [Reply("GetTasks", status, req, NoBody)
                                  EXCEPT !.pk = public_key]
                   /\ UNCHANGED <<chan, executors, exe>>
    /\ UNCHANGED <<exec, keystore, database_file, now, trusted_executor_keystore, executor_meta_database,
                   tasks_sinks, tasks, launch, drop>>

\* get_tasks as do_executor_main calls it: the client_id of the configuration
\* in the three places
get_tasks(c, public_key, signer, ver) ==
    get_tasks_request(c, c, public_key, RegisterExecutorRequest(c, signer, ver))

\* a mutant of register_executor: the known map is not written
register_executor_unwritten(db, client_id) == db

\* register_executor after the insertion: the write of the known map
register_executor(db, client_id) ==
    MapInsert(db, client_id, ExecutorMeta(client_id, TagsOf(client_id)))

\* the rest of get_tasks: register_executor writes the known map and saves it
\* to the database file, and the response stream is returned
get_tasks_registered(ch) ==
    /\ ch \in DOMAIN chan
    /\ chan[ch].st = "registering"
    /\ executor_meta_database' =
          register_executor(executor_meta_database, chan[ch].client_id)
    /\ database_file' = executor_meta_database'
    /\ chan' = [chan EXCEPT ![ch].st = "open"]
    /\ exe' = [c \in Clients |->
                 IF exe[c].st = "connecting" /\ exe[c].ch = ch
                 THEN [exe[c] EXCEPT !.st = "up"] ELSE exe[c]]
    /\ UNCHANGED <<now, trusted_executor_keystore, unapproved_executor_keystore,
                   executors, tasks_sinks, tasks, launch, drop, reply, keystore, exec>>

\* the closure of the response stream: the next inbox item is registered under
\* a fresh task id (register_new_task) and sent as a frame
register_new_task(sinks, task_id, sender_to_commander) ==
    MapInsert(sinks, task_id, sender_to_commander)

get_tasks_stream(ch) ==
    /\ ch \in DOMAIN chan
    /\ chan[ch].st = "open"
    /\ chan[ch].q # <<>>
    /\ LET item == Head(chan[ch].q)
           task_id == Len(tasks) + 1
       IN  /\ tasks_sinks' = register_new_task(tasks_sinks, task_id, item.d)
           /\ tasks' = Append(tasks,
                 [ch |-> ch, d |-> item.d, p |-> item.p, ev |-> <<>>,
                  rpc |-> "none", made |-> <<>>, child |-> "none",
                  fin |-> FALSE])
           /\ chan' = [chan EXCEPT ![ch].q = Tail(@),
                                   ![ch].out = Append(@, task_id)]
    /\ UNCHANGED <<exec, keystore, database_file, now, trusted_executor_keystore, unapproved_executor_keystore,
                   executor_meta_database, executors, launch, exe, drop, reply>>

(***************************************************************************)
(* LaunchTask.                                                             *)
(***************************************************************************)
KeyTasks == {"AuthorizeKey", "RevokeKey"}

Event(kind, client_id, synth, ids) ==
    [kind |-> kind, client_id |-> client_id, synth |-> synth, ids |-> ids]

\* a mutant of launch_task_status: key tasks pass with a regular key
launch_task_status_keys_unchecked(p) ==
    IF decode_payload(authorized_keys, p, now) # "Ok"
    THEN StatusFromKeyStoreError(decode_payload(authorized_keys, p, now))
    ELSE IF p.kind = "StreamingPayload" THEN "Internal"
    ELSE IF p.arg.q = ParseError THEN "InvalidArgument"
    ELSE "Ok"

\* a mutant of launch_task_status: the payload is verified against the admin keys
launch_task_status_admin_store(p) ==
    IF decode_payload(authorized_admin_keys, p, now) # "Ok"
    THEN StatusFromKeyStoreError(decode_payload(authorized_admin_keys, p, now))
    ELSE IF p.kind = "StreamingPayload" THEN "Internal"
    ELSE IF p.arg.q = ParseError THEN "InvalidArgument"
    ELSE "Ok"

\* launch_task up to the fan-out: the status of its early return, or "Ok"
launch_task_status(p) ==
    IF decode_payload(authorized_keys, p, now) # "Ok"
    THEN StatusFromKeyStoreError(decode_payload(authorized_keys, p, now))
    ELSE IF p.kind \in KeyTasks /\ decode_payload(authorized_admin_keys, p, now) # "Ok"
    THEN "FailedPrecondition"
    ELSE IF p.kind = "StreamingPayload" THEN "Internal"
    ELSE IF p.arg.q = ParseError THEN "InvalidArgument"
    ELSE "Ok"

\* a mutant of get_channels_to_matching_executors: the connected map is scanned
get_channels_to_matching_executors_connected(query) ==
    [c \in {x \in DOMAIN executor_meta_database \cap DOMAIN executors :
                matches(qmatches_meta(executor_meta_database[x], query))} |->
        executors[c]]

\* get_channels_to_matching_executors: the matching known executors, each with
\* its inbox if it is connected (0: none)
get_channels_to_matching_executors(query) ==
    [c \in {x \in DOMAIN executor_meta_database :
                matches(qmatches_meta(executor_meta_database[x], query))} |->
        IF c \in DOMAIN executors THEN executors[c] ELSE 0]

\* launch_task through the MatchingExecutors frame
launch_task(p) ==
    /\ IF launch_task_status(p) = "Ok"
       THEN /\ Len(launch) < MaxDispatches
            /\ LET senders == get_channels_to_matching_executors(p.arg.q)
               IN  launch' = Append(launch,
                      [p |-> p, senders |-> senders, todo |-> DOMAIN senders,
                       cur |-> "", res |-> "",
                       attempts |-> [c \in DOMAIN senders |-> 0],
                       sent |-> [c \in DOMAIN senders |-> 0],
                       stream |-> <<Event("MatchingExecutors", "", TRUE,
                                          DOMAIN senders)>>,
                       open |-> TRUE, ended |-> FALSE,
                       pc |-> IF DOMAIN senders = {} THEN "done" ELSE "loop"])
            /\ UNCHANGED reply
       ELSE /\ reply' = Reply("LaunchTask", launch_task_status(p), p, NoBody)
            /\ UNCHANGED launch
    /\ UNCHANGED <<exec, keystore, database_file, now, trusted_executor_keystore, unapproved_executor_keystore,
                   executor_meta_database, executors, chan, tasks_sinks, tasks,
                   exe, drop>>

\* UnboundedSender::send into inbox ch: fails once the receiver is dropped
SendOutcome(ch) == IF chan[ch].st = "closed" THEN "Err" ELSE "Ok"

\* a mutant of Synthesized: TaskSubmitted whatever the outcome
Synthesized_always_submitted(client_id, res) ==
    Event("TaskSubmitted", client_id, TRUE, {})

\* the event launch_task emits for one executor: res is the outcome of the send,
\* "Err" also when the executor has no channel
Synthesized(client_id, res) ==
    Event(IF res = "Ok" THEN "TaskSubmitted" ELSE "Disconnected", client_id,
          TRUE, {})

\* one iteration of the loop of launch_task up to the send into the inbox; an
\* executor without a channel gets its Disconnected event at once
launch_task_send(d, c) ==
    /\ d \in DOMAIN launch
    /\ launch[d].pc = "loop"
    /\ launch[d].cur = ""
    /\ c \in launch[d].todo
    /\ LET ch == launch[d].senders[c]
       IN  IF ch = 0
           THEN /\ launch' = [launch EXCEPT
                      ![d].stream = Append(@, Synthesized(c, "Err")),
                      ![d].todo = @ \ {c},
                      ![d].pc = IF launch[d].todo = {c} THEN "done" ELSE "loop"]
                /\ UNCHANGED chan
           ELSE /\ launch' = [launch EXCEPT
                      ![d].cur = c,
                      ![d].res = SendOutcome(ch),
                      ![d].attempts[c] = @ + 1,
                      ![d].sent[c] = IF SendOutcome(ch) = "Ok" THEN @ + 1 ELSE @]
                /\ chan' = IF SendOutcome(ch) = "Ok"
                           THEN [chan EXCEPT ![ch].q =
                                    Append(@, [p |-> launch[d].p, d |-> d])]
                           ELSE chan
    /\ UNCHANGED <<exec, keystore, database_file, now, trusted_executor_keystore, unapproved_executor_keystore,
                   executor_meta_database, executors, tasks_sinks, tasks, exe,
                   drop, reply>>

\* the rest of the iteration: the event for the outcome of the send
launch_task_emit(d) ==
    /\ d \in DOMAIN launch
    /\ launch[d].pc = "loop"
    /\ launch[d].cur # ""
    /\ launch' = [launch EXCEPT
          ![d].stream = Append(@, Synthesized(launch[d].cur, launch[d].res)),
          ![d].todo = @ \ {launch[d].cur},
          ![d].cur = "",
          ![d].res = "",
          ![d].pc = IF launch[d].todo = {launch[d].cur} THEN "done" ELSE "loop"]
    /\ UNCHANGED <<exec, keystore, database_file, now, trusted_executor_keystore, unapproved_executor_keystore,
                   executor_meta_database, executors, chan, tasks_sinks, tasks,
                   exe, drop, reply>>

\* the commander drops the reply stream
commander_disconnect(d) ==
    /\ d \in DOMAIN launch
    /\ launch[d].pc = "done"
    /\ launch[d].open
    /\ launch' = [launch EXCEPT ![d].open = FALSE]
    /\ UNCHANGED <<exec, keystore, database_file, now, trusted_executor_keystore, unapproved_executor_keystore,
                   executor_meta_database, executors, chan, tasks_sinks, tasks,
                   exe, drop, reply>>

\* a mutant of ReplySenders: the senders kept in the task sinks are not counted
ReplySenders_but_sinks(d) ==
    (IF launch[d].pc # "done" THEN {<<"handler", 0, 0>>} ELSE {})
    \cup UNION {{<<"inbox", ch, i>> : i \in {j \in DOMAIN chan[ch].q :
                                                 chan[ch].q[j].d = d}} :
                 ch \in DOMAIN chan}
    \cup {<<"relay", t, 0>> : t \in {x \in DOMAIN tasks :
                                        tasks[x].d = d /\ tasks[x].rpc = "open"}}

\* the holders of a sender of the reply channel of dispatch d: the handler
\* until it returns, the items waiting in the inboxes, the task sinks, and the
\* task_execution calls that took a sink and have not returned
ReplySenders(d) ==
    (IF launch[d].pc # "done" THEN {<<"handler", 0, 0>>} ELSE {})
    \cup UNION {{<<"inbox", ch, i>> : i \in {j \in DOMAIN chan[ch].q :
                                                 chan[ch].q[j].d = d}} :
                 ch \in DOMAIN chan}
    \cup {<<"sink", t, 0>> : t \in {x \in DOMAIN tasks_sinks : tasks_sinks[x] = d}}
    \cup {<<"relay", t, 0>> : t \in {x \in DOMAIN tasks :
                                        tasks[x].d = d /\ tasks[x].rpc = "open"}}

\* the reply stream of launch_task ends: every sender of its channel is dropped
reply_stream_end(d) ==
    /\ d \in DOMAIN launch
    /\ launch[d].open
    /\ ~launch[d].ended
    /\ ReplySenders(d) = {}
    /\ launch' = [launch EXCEPT ![d].ended = TRUE]
    /\ UNCHANGED <<exec, keystore, database_file, now, trusted_executor_keystore, unapproved_executor_keystore,
                   executor_meta_database, executors, chan, tasks_sinks, tasks,
                   exe, drop, reply>>

(***************************************************************************)
(* Admin.                                                                  *)
(***************************************************************************)
QueryKinds == {"ListConnectedExecutors", "ListKnownExecutors", "DropExecutor"}

\* a mutant of admin_status: the payload is verified against the regular keys
admin_status_regular_store(p) ==
    IF decode_payload(authorized_keys, p, now) # "Ok"
    THEN StatusFromKeyStoreError(decode_payload(authorized_keys, p, now))
    ELSE IF p.kind \in QueryKinds /\ p.arg.q = ParseError THEN "InvalidArgument"
    ELSE "Ok"

\* admin: the status of its early return, or "Ok"
admin_status(p) ==
    IF decode_payload(authorized_admin_keys, p, now) # "Ok"
    THEN StatusFromKeyStoreError(decode_payload(authorized_admin_keys, p, now))
    ELSE IF p.kind \in QueryKinds /\ p.arg.q = ParseError THEN "InvalidArgument"
    ELSE "Ok"

\* the known executors a query selects
MatchingKnown(query) ==
    {c \in DOMAIN executor_meta_database :
        matches(qmatches_meta(executor_meta_database[c], query))}

\* get_running_tasks: the task ids that have a sink
get_running_tasks == {ToString(t) : t \in DOMAIN tasks_sinks}

\* what a listing request discloses
admin_body(p) ==
    CASE p.kind = "ListConnectedExecutors" ->
            MatchingKnown(p.arg.q) \cap DOMAIN executors
      [] p.kind = "ListKnownExecutors" -> MatchingKnown(p.arg.q)
      [] p.kind = "ListRunningTasks" -> get_running_tasks
      [] p.kind = "ListExecutorKeys" ->
            DOMAIN trusted_executor_keystore \cup Range(trusted_executor_keystore)
            \cup DOMAIN unapproved_executor_keystore
            \cup Range(unapproved_executor_keystore)
      [] p.kind = "ListAuthorizedKeys" ->
            DOMAIN authorized_keys \cup Range(authorized_keys)
      [] p.kind = "ListAdminAuthorizedKeys" ->
            DOMAIN authorized_admin_keys \cup Range(authorized_admin_keys)
      [] OTHER -> NoBody

\* the ids ApproveExecutorKey approves: the named one, or every pending one
ApprovedIds(client_id) ==
    IF client_id = "*" THEN DOMAIN unapproved_executor_keystore ELSE {client_id}

\* admin, every request but DropExecutor
admin(p) ==
    /\ p.kind # "DropExecutor" \/ admin_status(p) # "Ok"
    /\ IF admin_status(p) # "Ok"
       THEN /\ reply' = Reply("Admin", admin_status(p), p, NoBody)
            /\ UNCHANGED keyVars
       ELSE /\ reply' = Reply("Admin", "Ok", p, admin_body(p))
            /\ IF p.kind = "ApproveExecutorKey"
               THEN LET stores == approve_each(
                            [trusted |-> trusted_executor_keystore,
                             unapproved |-> unapproved_executor_keystore],
                            ApprovedIds(p.arg.id))
                    IN  /\ trusted_executor_keystore' = stores.trusted
                        /\ unapproved_executor_keystore' = stores.unapproved
               ELSE UNCHANGED keyVars
    /\ UNCHANGED <<exec, keystore, database_file, now, executor_meta_database, executors, chan, tasks_sinks,
                   tasks, launch, exe, drop>>

\* admin, DropExecutor: authentication, parsing and the list of matching ids
admin_drop(p) ==
    /\ p.kind = "DropExecutor"
    /\ admin_status(p) = "Ok"
    /\ drop.pc = "idle"
    /\ IF MatchingKnown(p.arg.q) = {}
       THEN /\ reply' = Reply("Admin", "Ok", p, NoBody)
            /\ UNCHANGED drop
       ELSE /\ drop' = [pc |-> "run", p |-> p, todo |-> MatchingKnown(p.arg.q),
                        cur |-> "", rk |-> FALSE, done |-> {},
                        cut |-> [x \in {} |-> 0]]
            /\ UNCHANGED reply
    /\ UNCHANGED <<exec, keystore, database_file, now, trusted_executor_keystore, unapproved_executor_keystore,
                   executor_meta_database, executors, chan, tasks_sinks, tasks,
                   launch, exe>>

\* DropExecutor, one id: the removal from the known map
admin_drop_known(c) ==
    /\ drop.pc = "run"
    /\ drop.cur = ""
    /\ c \in drop.todo
    /\ executor_meta_database' = MapRemove(executor_meta_database, c)
    /\ drop' = [drop EXCEPT !.cur = c,
                             !.rk = c \in DOMAIN executor_meta_database]
    /\ UNCHANGED <<exec, keystore, database_file, now, trusted_executor_keystore, unapproved_executor_keystore,
                   executors, chan, tasks_sinks, tasks, launch, exe, reply>>

\* a mutant of drop_connected: the connected map is left as it is
drop_connected_kept(m, c) == m

\* the removal from the connected map
drop_connected(m, c) == MapRemove(m, c)

\* the entry of the response for one dropped client_id
AdminDroppedExecutorJsonResponse(client_id, removed_from_known, removed_from_connected) ==
    [client_id |-> client_id, removed_from_known |-> removed_from_known,
     removed_from_connected |-> removed_from_connected]

\* DropExecutor, the same id: the removal from the connected map and the entry
\* of the response; after the last id the response is returned.  cut records,
\* for each id dropped by the last DropExecutor that removed something, the
\* number of sessions admitted when it was removed from the connected map.
admin_drop_connected ==
    /\ drop.pc = "run"
    /\ drop.cur # ""
    /\ executors' = drop_connected(executors, drop.cur)
    /\ LET acc == drop.done \cup
                     {AdminDroppedExecutorJsonResponse(drop.cur, drop.rk,
                          drop.cur \in DOMAIN executors)}
       IN  IF drop.todo = {drop.cur}
           THEN /\ reply' = Reply("Admin", "Ok", drop.p, acc)
                /\ drop' = [pc |-> "idle", p |-> NoPayload, todo |-> {},
                            cur |-> "", rk |-> FALSE, done |-> {},
                            cut |-> MapInsert(drop.cut, drop.cur, Len(chan))]
           ELSE /\ drop' = [drop EXCEPT !.todo = @ \ {drop.cur}, !.cur = "",
                                        !.done = acc,
                                        !.cut = MapInsert(@, drop.cur, Len(chan))]
                /\ UNCHANGED reply
    /\ UNCHANGED <<exec, keystore, database_file, now, trusted_executor_keystore, unapproved_executor_keystore,
                   executor_meta_database, chan, tasks_sinks, tasks, launch, exe>>

(***************************************************************************)
(* The executor main loop and the TaskExecution relay.                     *)
(***************************************************************************)
\* a signed TaskExecutionResult
ExecutionResult(kind, c, signer) ==
    [kind |-> kind, client_id |-> c, key_id |-> c, signer |-> signer,
     valid_until |-> now + ValiditySecs]

\* a mutant of executor_decode: the executor trusts what the server forwards
executor_decode_trusting(ks, p) == "Ok"

\* the executor's verification of a forwarded payload against its own key store
executor_decode(ks, p) == decode_payload(ks, p, now)

\* what the loop of do_executor_main does with a frame: the result it reports
\* at once (none for a command it spawns) and the configuration change
executor_result(ks, p) ==
    IF executor_decode(ks, p) # "Ok" THEN "TaskRejected"
    ELSE CASE p.kind = "ExecuteCommand" -> "Spawn"
           [] p.kind = "AuthorizeKey" -> "TaskCompleted0"
           [] p.kind = "RevokeKey" ->
                (IF p.arg.id \in DOMAIN ks THEN "TaskCompleted0" ELSE "TaskRejected")
           [] OTHER -> "TaskRejected"

executor_modification(ks, p) ==
    IF executor_result(ks, p) = "TaskCompleted0" THEN p.kind ELSE "None"

\* the exit code of a child that has not exited when its Started event is read
NotExited == -1

\* do_executor_main: the next frame of the stream.  A spawned command has
\* exited with code rc, or is still running (NotExited), when the request
\* stream of its TaskExecution call is built; made is the list of all the
\* events the executor has put on that stream.
do_executor_main(c, rc) ==
    /\ exe[c].st = "up"
    /\ exe[c].wait = 0
    /\ chan[exe[c].ch].out # <<>>
    /\ LET ch == exe[c].ch
           task_id == Head(chan[ch].out)
           p == tasks[task_id].p
           res == executor_result(exe[c].ks, p)
           sign(kind) == ExecutionResult(kind, c, exe[c].key)
       IN  /\ chan' = [chan EXCEPT ![ch].out = Tail(@)]
           /\ IF res = "Spawn"
              THEN LET events ==
                           IF rc = NotExited THEN <<sign("Ping")>>
                           ELSE <<sign("Ping"),
                                  sign(IF rc = 0 THEN "TaskCompleted0"
                                       ELSE "TaskCompleted1")>>
                   IN  /\ exe' = [exe EXCEPT ![c].spawned = @ \cup {task_id}]
                       /\ tasks' = [tasks EXCEPT
                             ![task_id].ev = events,
                             ![task_id].made = events,
                             ![task_id].child =
                                 IF rc = NotExited THEN "running" ELSE "exited"]
              ELSE /\ exe' = [exe EXCEPT ![c].wait = task_id,
                                         ![c].mod = executor_modification(exe[c].ks, p)]
                   /\ tasks' = [tasks EXCEPT ![task_id].ev = <<sign(res)>>,
                                             ![task_id].made = <<sign(res)>>]
    /\ UNCHANGED <<exec, keystore, database_file, now, trusted_executor_keystore, unapproved_executor_keystore,
                   executor_meta_database, executors, tasks_sinks, launch, drop,
                   reply>>

\* get_task_sink: the sink of a task id, taken out of the map
get_task_sink(sinks, task_id) == MapRemove(sinks, task_id)

\* a mutant of get_task_sink_sender: the sink is found by the issued task
get_task_sink_sender_issued(sinks, task_id) ==
    IF task_id \in DOMAIN tasks THEN tasks[task_id].d ELSE 0

\* get_task_sink: the Option it returns, the dispatch whose reply channel the
\* sink feeds (0: None)
get_task_sink_sender(sinks, task_id) ==
    IF task_id \in DOMAIN sinks THEN sinks[task_id] ELSE 0

\* task_execution: the call arrives and takes its sink
task_execution(task_id) ==
    /\ task_id \in DOMAIN tasks
    /\ tasks[task_id].rpc = "none"
    /\ tasks[task_id].ev # <<>>
    /\ IF get_task_sink_sender(tasks_sinks, task_id) # 0
       THEN /\ tasks_sinks' = get_task_sink(tasks_sinks, task_id)
            /\ tasks' = [tasks EXCEPT ![task_id].rpc = "open"]
            /\ UNCHANGED reply
       ELSE /\ tasks' = [tasks EXCEPT ![task_id].rpc = "err"]
            /\ reply' = Reply("TaskExecution", "NotFound", NoPayload, NoBody)
            /\ UNCHANGED tasks_sinks
    /\ UNCHANGED <<exec, keystore, database_file, now, trusted_executor_keystore, unapproved_executor_keystore,
                   executor_meta_database, executors, chan, launch, exe, drop>>

\* task_execution: the next item of the request stream, or its end
task_execution_next(task_id) ==
    /\ task_id \in DOMAIN tasks
    /\ tasks[task_id].rpc = "open"
    /\ LET ev == tasks[task_id].ev
           d == tasks[task_id].d
       IN  IF ev = <<>>
           THEN /\ tasks[task_id].child # "running"
                /\ tasks' = [tasks EXCEPT ![task_id].rpc = "ok"]
                /\ UNCHANGED <<launch, reply>>
           ELSE IF decode_payload(trusted_executor_keystore, Head(ev), now) # "Ok"
           THEN /\ tasks' = [tasks EXCEPT ![task_id].rpc = "err",
                                          ![task_id].ev = <<>>]
                /\ reply' = Reply("TaskExecution",
                      StatusFromKeyStoreError(
                          decode_payload(trusted_executor_keystore, Head(ev), now)),
                      NoPayload, NoBody)
                /\ UNCHANGED launch
           ELSE IF launch[d].open
           THEN /\ launch' = [launch EXCEPT ![d].stream =
                      Append(@, Event(Head(ev).kind, Head(ev).client_id, FALSE, {}))]
                /\ tasks' = [tasks EXCEPT ![task_id].ev = Tail(@)]
                /\ UNCHANGED reply
           ELSE /\ tasks' = [tasks EXCEPT ![task_id].rpc = "ok",
                                          ![task_id].ev = <<>>]
                /\ UNCHANGED <<launch, reply>>
    /\ UNCHANGED <<exec, keystore, database_file, now, trusted_executor_keystore, unapproved_executor_keystore,
                   executor_meta_database, executors, chan, tasks_sinks, exe, drop>>

\* a task id that was never issued
UnknownTaskId == 0

\* task_execution, a call that is not the first one for its task id: a call
\* repeated after the executor's own call has arrived, or a call for an id
\* that was never issued.  It carries one event signed by the executor.
task_execution_repeated(task_id) ==
    /\ \/ task_id = UnknownTaskId
       \/ task_id \in DOMAIN tasks /\ tasks[task_id].rpc # "none"
    /\ LET sender == get_task_sink_sender(tasks_sinks, task_id)
       IN  IF sender = 0
           THEN /\ reply' = Reply("TaskExecution", "NotFound", NoPayload, {task_id})
                /\ UNCHANGED <<tasks_sinks, launch>>
           ELSE /\ sender \in DOMAIN launch
                /\ tasks_sinks' = get_task_sink(tasks_sinks, task_id)
                /\ launch' = IF launch[sender].open
                             THEN [launch EXCEPT ![sender].stream =
                                      Append(@, Event("Ping",
                                          IF task_id \in DOMAIN tasks
                                          THEN chan[tasks[task_id].ch].client_id
                                          ELSE "", FALSE, {}))]
                             ELSE launch
                /\ UNCHANGED reply
    /\ UNCHANGED <<exec, keystore, database_file, now, trusted_executor_keystore, unapproved_executor_keystore,
                   executor_meta_database, executors, chan, tasks, exe, drop>>

\* task_execution called by the process of executor c with the task id of its
\* choice in the metadata and one TaskCompleted result, signed with its own
\* key, that names client_id: the handler takes the sink, verifies the
\* signature against the trusted executor keys and forwards the result
task_execution_by(c, task_id, client_id) ==
    /\ exe[c].st = "up"
    /\ LET sender == get_task_sink_sender(tasks_sinks, task_id)
           signed == [ExecutionResult("TaskCompleted0", c, ExecutorKey[c])
                         EXCEPT !.client_id = client_id]
           status == decode_payload(trusted_executor_keystore, signed, now)
       IN  IF sender = 0
           THEN /\ reply' = Reply("TaskExecution", "NotFound", NoPayload, {task_id})
                /\ UNCHANGED <<tasks_sinks, launch>>
           ELSE /\ tasks_sinks' = get_task_sink(tasks_sinks, task_id)
                /\ IF status # "Ok"
                   THEN /\ reply' = Reply("TaskExecution",
                                          StatusFromKeyStoreError(status),
                                          NoPayload, {task_id})
                        /\ UNCHANGED launch
                   ELSE /\ launch' = IF launch[sender].open
                                     THEN [launch EXCEPT ![sender].stream =
                                              Append(@, Event(signed.kind,
                                                  signed.client_id, FALSE, {}))]
                                     ELSE launch
                        /\ UNCHANGED reply
    /\ UNCHANGED <<exec, keystore, database_file, now, trusted_executor_keystore,
                   unapproved_executor_keystore, executor_meta_database, executors,
                   chan, tasks, exe, drop>>

\* what a handler that panics leaves to its caller: no Status
Panicked == "panicked"

\* task_execution called by the process of executor c without the task_id
\* metadata: metadata().get("task_id") is None and unwrap panics.  The panic
\* unwinds the task that serves the caller's connection; torn says whether
\* the transport drops the connection with it, and with the connection the
\* response stream of the caller's GetTasks call
task_execution_without_task_id(c, torn) ==
    /\ exe[c].st = "up"
    /\ reply' = Reply("TaskExecution", Panicked, NoPayload, NoBody)
    /\ chan' = IF torn
               THEN [chan EXCEPT ![exe[c].ch].st = "closed",
                                 ![exe[c].ch].q = <<>>,
                                 ![exe[c].ch].out = <<>>]
               ELSE chan
    /\ exe' = IF torn
              THEN [exe EXCEPT ![c].st = "down", ![c].ch = 0, ![c].wait = 0,
                               ![c].mod = "None"]
              ELSE exe
    /\ UNCHANGED <<exec, keystore, database_file, now, trusted_executor_keystore,
                   unapproved_executor_keystore, executor_meta_database, executors,
                   tasks_sinks, tasks, launch, drop>>

\* wait_for_exit: the child of a spawned command exits with code rc and its
\* Finished event is put on the request stream of the task's call
child_exit(task_id, rc) ==
    /\ task_id \in DOMAIN tasks
    /\ tasks[task_id].child = "running"
    /\ tasks[task_id].rpc \in {"none", "open"}
    /\ LET c == chan[tasks[task_id].ch].owner
           e == ExecutionResult(IF rc = 0 THEN "TaskCompleted0" ELSE "TaskCompleted1",
                                c, exe[c].key)
       IN  tasks' = [tasks EXCEPT ![task_id].ev = Append(@, e),
                                  ![task_id].made = Append(@, e),
                                  ![task_id].child = "exited"]
    /\ UNCHANGED <<exec, keystore, database_file, now, trusted_executor_keystore, unapproved_executor_keystore,
                   executor_meta_database, executors, chan, tasks_sinks, launch,
                   exe, drop, reply>>

\* a mutant of kill_child: the child is left behind
kill_child_never(child) == child

\* the kill signal of do_execute_task: a child that still runs is killed
kill_child(child) == IF child = "running" THEN "killed" ELSE child

\* do_execute_task after its TaskExecution call has returned
do_execute_task_return(task_id) ==
    /\ task_id \in DOMAIN tasks
    /\ tasks[task_id].child # "none"
    /\ tasks[task_id].rpc \in {"ok", "err"}
    /\ ~tasks[task_id].fin
    /\ tasks' = [tasks EXCEPT ![task_id].child = kill_child(@),
                              ![task_id].fin = TRUE]
    /\ UNCHANGED <<exec, keystore, database_file, now, trusted_executor_keystore, unapproved_executor_keystore,
                   executor_meta_database, executors, chan, tasks_sinks, launch,
                   exe, drop, reply>>

\* executor_main after single_execution_result returned: an error reconnects,
\* a configuration change restarts the executor with the new key store
executor_main(c) ==
    /\ exe[c].wait # 0
    /\ tasks[exe[c].wait].rpc \in {"ok", "err"}
    /\ LET ok == tasks[exe[c].wait].rpc = "ok"
           p == tasks[exe[c].wait].p
       IN  exe' = [exe EXCEPT
              ![c].wait = 0,
              ![c].mod = "None",
              ![c].st = IF ok /\ exe[c].mod = "None" THEN "up" ELSE "down",
              ![c].ch = IF ok /\ exe[c].mod = "None" THEN @ ELSE 0,
              ![c].ks = IF ~ok THEN @
                        ELSE IF exe[c].mod = "AuthorizeKey"
                        THEN register_key(@, p.arg.id, p.arg.key)
                        ELSE IF exe[c].mod = "RevokeKey"
                        THEN remove_key(@, p.arg.id)
                        ELSE @]
    /\ UNCHANGED <<exec, keystore, database_file, now, trusted_executor_keystore, unapproved_executor_keystore,
                   executor_meta_database, executors, chan, tasks_sinks, tasks,
                   launch, drop, reply>>

\* the executor process loses its connection or is restarted
executor_disconnect(c) ==
    /\ exe[c].st \in {"connecting", "up"}
    /\ exe' = [exe EXCEPT ![c].st = "down", ![c].ch = 0, ![c].wait = 0,
                          ![c].mod = "None"]
    /\ UNCHANGED <<exec, keystore, database_file, now, trusted_executor_keystore, unapproved_executor_keystore,
                   executor_meta_database, executors, chan, tasks_sinks, tasks,
                   launch, drop, reply>>

\* the server drops the response stream of a session whose executor is gone:
\* the inbox receiver is dropped with the items it holds
get_tasks_dropped(ch) ==
    /\ ch \in DOMAIN chan
    /\ chan[ch].st = "open"
    /\ exe[chan[ch].owner].ch # ch
    /\ chan' = [chan EXCEPT ![ch].st = "closed", ![ch].q = <<>>, ![ch].out = <<>>]
    /\ UNCHANGED <<exec, keystore, database_file, now, trusted_executor_keystore, unapproved_executor_keystore,
                   executor_meta_database, executors, tasks_sinks, tasks, launch,
                   exe, drop, reply>>

\* a mutant of InboxSenders: the response stream keeps a sender of its inbox
InboxSenders_held_by_stream(ch) == {<<"stream", ch>>}

\* the holders of a sender of inbox ch: the connected map, and the LaunchTask
\* handlers that cloned it into their list of senders and have not returned
InboxSenders(ch) ==
    {<<"map", c>> : c \in {x \in DOMAIN executors : executors[x] = ch}}
    \cup {<<"handler", d>> : d \in {x \in DOMAIN launch :
                launch[x].pc # "done"
                /\ \E c \in DOMAIN launch[x].senders : launch[x].senders[c] = ch}}

\* the response stream of GetTasks ends: the inbox is empty and every sender
\* of it has been dropped, so the receiver yields None
get_tasks_stream_end(ch) ==
    /\ ch \in DOMAIN chan
    /\ chan[ch].st = "open"
    /\ chan[ch].q = <<>>
    /\ InboxSenders(ch) = {}
    /\ chan' = [chan EXCEPT ![ch].st = "ended"]
    /\ UNCHANGED <<exec, keystore, database_file, now, trusted_executor_keystore,
                   unapproved_executor_keystore, executor_meta_database, executors,
                   tasks_sinks, tasks, launch, exe, drop, reply>>

\* do_executor_main after the last frame of a stream that has ended: it
\* returns Ok, executor_main returns and main calls it again
do_executor_main_end(c) ==
    /\ exe[c].st = "up"
    /\ exe[c].wait = 0
    /\ chan[exe[c].ch].st = "ended"
    /\ chan[exe[c].ch].out = <<>>
    /\ exe' = [exe EXCEPT ![c].st = "down", ![c].ch = 0]
    /\ UNCHANGED <<exec, keystore, database_file, now, trusted_executor_keystore,
                   unapproved_executor_keystore, executor_meta_database, executors,
                   chan, tasks_sinks, tasks, launch, drop, reply>>

\* the server process is restarted: TaskServer::new loads the known map from
\* the database file and starts with empty maps of connected executors and of
\* task sinks; the streams and calls of the old process are gone with it
server_restart ==
    /\ executor_meta_database' = database_file
    /\ executors' = [x \in {} |-> 0]
    /\ tasks_sinks' = [x \in {} |-> 0]
    /\ chan' = [ch \in DOMAIN chan |->
                  [chan[ch] EXCEPT !.st = "closed", !.q = <<>>, !.out = <<>>]]
    /\ launch' = [d \in DOMAIN launch |->
                    [launch[d] EXCEPT !.open = FALSE, !.pc = "done", !.todo = {},
                                      !.cur = "", !.res = ""]]
    /\ tasks' = [t \in DOMAIN tasks |->
                   [tasks[t] EXCEPT !.ev = <<>>,
                                    !.rpc = IF @ \in {"none", "open"} THEN "err" ELSE @]]
    /\ drop' = [pc |-> "idle", p |-> NoPayload, todo |-> {}, cur |-> "",
                rk |-> FALSE, done |-> {}, cut |-> [x \in {} |-> 0]]
    /\ UNCHANGED <<now, trusted_executor_keystore, unapproved_executor_keystore,
                   database_file, exe, reply, keystore, exec>>

(***************************************************************************)
(* The commander: the state it keeps for each executor.                    *)
(***************************************************************************)
\* the state do_handle_cmd assigns on an execution result
ExecutorState(kind, prev) ==
    CASE kind = "TaskRejected" -> "Error"
      [] kind = "TaskAborted" -> "Error"
      [] kind = "TaskCompleted0" -> "Success"
      [] kind = "TaskCompleted1" -> "Error"
      [] kind = "Ping" -> "Alive"
      [] kind = "Disconnected" -> "Disconnected"
      [] kind = "TaskSubmitted" -> "Submitted"
      [] OTHER -> prev

\* do_handle_cmd: the executors map after the first n frames of the stream.
\* With the option raw the ids of the MatchingExecutors frame are not inserted.
RECURSIVE do_handle_cmd_options(_, _, _)
do_handle_cmd_options(stream, n, raw) ==
    IF n = 0 THEN [c \in {} |-> "Matching"]
    ELSE LET m == do_handle_cmd_options(stream, n - 1, raw)
             e == stream[n]
         IN  IF e.kind = "MatchingExecutors"
             THEN IF raw THEN m
                  ELSE [c \in DOMAIN m \cup e.ids |->
                           IF c \in e.ids THEN "Matching" ELSE m[c]]
             ELSE MapInsert(m, e.client_id,
                      ExecutorState(e.kind,
                          IF e.client_id \in DOMAIN m THEN m[e.client_id]
                          ELSE "Matching"))

\* do_handle_cmd with the default options
do_handle_cmd(stream, n) == do_handle_cmd_options(stream, n, FALSE)

\* a mutant of success: an empty map of executors is a success
success_when_empty(executors_map) ==
    \A c \in DOMAIN executors_map : executors_map[c] = "Success"

\* do_handle_cmd after the stream has ended: the flag success ...
success(executors_map) ==
    /\ DOMAIN executors_map # {}
    /\ \A c \in DOMAIN executors_map : executors_map[c] = "Success"

\* ... and the code the process exits with
exit_code(executors_map) == IF success(executors_map) THEN 0 ELSE 1

(***************************************************************************)
(* The requests the clients send.                                          *)
(***************************************************************************)
\* commander identities of the keys test: key id and the key pair that signs
Regular == <<"regular", "kr">>
Admin == <<"admin", "ka">>
Ultimate == <<"ultimate", "ku">>
NotInExecutor == <<"not_in_executor", "kn">>
UnauthorizedRegular == <<"regular", "kx">>
UnauthorizedAdmin == <<"admin", "kx">>
Unknown == <<"unknown", "kx">>

\* the instants at which a request that arrives now may have been signed
SignedAt == {t \in Times : t <= now}

LaunchPayload(kind, arg, who, t) ==
    encode_and_sign(kind, arg, "", who[1], who[2], t)

(***************************************************************************)
(* Specification of the dispatch.  The server starts with the executors'   *)
(* keys in its trusted store file and the executors in its known-executors *)
(* file; executors and commanders hold the keys of their configuration.    *)
(***************************************************************************)
\* the tasks the commanders launch
DispatchTasks ==
    { <<"ExecuteCommand", Arg(Wildcard, ""), Regular>>,
      <<"ExecuteCommand", Arg(Pattern("e1"), ""), Regular>>,
      <<"ExecuteCommand", Arg(Wildcard, ""), NotInExecutor>>,
      <<"AuthorizeKey", KeyArg(Wildcard, "not_in_executor", "kn"), Ultimate>>,
      <<"RevokeKey", Arg(Wildcard, "regular"), Ultimate>> }

InitTrusted ==
    /\ now = 0
    /\ trusted_executor_keystore = ExecutorKey
    /\ unapproved_executor_keystore = EmptyMap
    /\ executor_meta_database = [c \in Clients |-> ExecutorMeta(c, TagsOf(c))]
    /\ database_file = executor_meta_database
    /\ executors = [x \in {} |-> 0]
    /\ chan = <<>>
    /\ tasks_sinks = [x \in {} |-> 0]
    /\ tasks = <<>>
    /\ launch = <<>>
    /\ exe = [c \in Clients |->
                [st |-> "down", ch |-> 0, key |-> ExecutorKey[c],
                 ks |-> ExecutorAuthorizedKeys, wait |-> 0, mod |-> "None",
                 spawned |-> {}]]
    /\ drop = [pc |-> "idle", p |-> NoPayload, todo |-> {}, cur |-> "",
               rk |-> FALSE, done |-> {}, cut |-> [x \in {} |-> 0]]
    /\ reply = [op |-> "", status |-> "", p |-> NoPayload, pk |-> NoKey,
                body |-> NoBody]
    /\ keystore = NoKeyStore
    /\ exec = NoExec

Next ==
    \/ Tick(ValiditySecs + 1)
    \/ \E c \in Clients : get_tasks(c, ExecutorKey[c], ExecutorKey[c], PROTOCOL_VERSION)
    \/ \E ch \in DOMAIN chan : get_tasks_registered(ch)
    \/ \E ch \in DOMAIN chan : get_tasks_stream(ch)
    \/ \E ch \in DOMAIN chan : get_tasks_dropped(ch)
    \/ \E task \in DispatchTasks :
          launch_task(LaunchPayload(task[1], task[2], task[3], now))
    \/ \E d \in DOMAIN launch, c \in Clients : launch_task_send(d, c)
    \/ \E d \in DOMAIN launch : launch_task_emit(d)
    \/ \E d \in DOMAIN launch : commander_disconnect(d)
    \/ \E c \in Clients, rc \in {0, 1} : do_executor_main(c, rc)
    \/ \E t \in DOMAIN tasks : task_execution(t)
    \/ \E t \in DOMAIN tasks : task_execution_next(t)
    \/ \E c \in Clients : executor_main(c)
    \/ \E c \in Clients : executor_disconnect(c)

Spec == InitTrusted /\ [][Next]_vars

(***************************************************************************)
(* Specification of the registry: registrations, reconnections, approvals  *)
(* and drops on a fresh server.                                            *)
(***************************************************************************)
NextRegistry ==
    \/ \E c \in Clients : get_tasks(c, ExecutorKey[c], ExecutorKey[c], PROTOCOL_VERSION)
    \/ \E ch \in DOMAIN chan : get_tasks_registered(ch)
    \/ \E ch \in DOMAIN chan : get_tasks_dropped(ch)
    \/ \E c \in Clients : executor_disconnect(c)
    \/ \E id \in Clients \cup {"*"} :
          admin(LaunchPayload("ApproveExecutorKey", Arg(NoQuery, id), Admin, now))
    \/ \E q \in {Wildcard, Pattern("e1")} :
          admin_drop(LaunchPayload("DropExecutor", Arg(q, ""), Admin, now))
    \/ \E c \in Clients : admin_drop_known(c)
    \/ admin_drop_connected

SpecRegistry == Init /\ [][NextRegistry]_vars

(***************************************************************************)
(* Specification of the authentication: any commander identity signs any   *)
(* request, an executor presents its own key or another one.               *)
(***************************************************************************)
\* the identity whose requests verify everywhere; its requests may arrive late
Late == {Ultimate}

KeysLaunchArgs(kind) ==
    CASE kind = "AuthorizeKey" -> {KeyArg(Wildcard, "not_in_executor", "kn")}
      [] OTHER -> {Arg(Wildcard, "")}

KeysAdminArgs(kind) ==
    CASE kind \in QueryKinds -> {Arg(Wildcard, "")}
      [] kind = "ApproveExecutorKey" -> {Arg(NoQuery, "*")}
      [] OTHER -> {Arg(NoQuery, "")}

\* the signed requests that arrive now: LaunchTask requests (to_launch) or Admin ones
Requests(signers, kinds, to_launch) ==
    UNION {{LaunchPayload(kind, arg, who, t) :
                arg \in IF to_launch THEN KeysLaunchArgs(kind) ELSE KeysAdminArgs(kind),
                t \in IF who \in Late THEN SignedAt ELSE {now}} :
           kind \in kinds, who \in signers}

LaunchSigners == {Regular, Admin, Ultimate, UnauthorizedRegular, Unknown}
AdminSigners == {Regular, Admin, Ultimate, UnauthorizedAdmin, Unknown}

NextKeys ==
    \/ Tick(ValiditySecs + 1)
    \/ \E pk \in {ExecutorKey["e1"], RotatedKey}, signer \in {ExecutorKey["e1"], RotatedKey},
          ver \in Versions : get_tasks("e1", pk, signer, ver)
    \/ \E ch \in DOMAIN chan : get_tasks_registered(ch)
    \/ \E ch \in DOMAIN chan : get_tasks_stream(ch)
    \/ \E p \in Requests(LaunchSigners, {"ExecuteCommand", "AuthorizeKey"}, TRUE) : launch_task(p)
    \/ \E d \in DOMAIN launch, c \in Clients : launch_task_send(d, c)
    \/ \E d \in DOMAIN launch : launch_task_emit(d)
    \/ \E p \in Requests(AdminSigners,
                         {"ListExecutorKeys", "ApproveExecutorKey", "DropExecutor"},
                         FALSE) :
          admin(p)
    \/ \E p \in Requests(AdminSigners, {"DropExecutor"}, FALSE) :
          admin_drop(p)
    \/ \E c \in Clients : admin_drop_known(c)
    \/ admin_drop_connected

SpecKeys == Init /\ [][NextKeys]_vars

(***************************************************************************)
(* Specification of the relay: commands that run for a while, commanders   *)
(* that leave, executors that disconnect, TaskExecution calls that are     *)
(* repeated or name an unknown task.                                       *)
(***************************************************************************)
RelayTasks ==
    { <<"ExecuteCommand", Arg(Wildcard, ""), Regular>>,
      <<"ExecuteCommand", Arg(Pattern("e1"), ""), Regular>>,
      <<"ExecuteCommand", Arg(Pattern("e3"), ""), Regular>> }

\* the executor that runs; the other one is known and stays away
RelayExecutors == {"e1"}

NextRelay ==
    \/ \E c \in RelayExecutors :
          get_tasks(c, ExecutorKey[c], ExecutorKey[c], PROTOCOL_VERSION)
    \/ \E ch \in DOMAIN chan : get_tasks_registered(ch)
    \/ \E ch \in DOMAIN chan : get_tasks_stream(ch)
    \/ \E ch \in DOMAIN chan : get_tasks_dropped(ch)
    \/ \E task \in RelayTasks :
          launch_task(LaunchPayload(task[1], task[2], task[3], now))
    \/ \E d \in DOMAIN launch, c \in Clients : launch_task_send(d, c)
    \/ \E d \in DOMAIN launch : launch_task_emit(d)
    \/ \E d \in DOMAIN launch : commander_disconnect(d)
    \/ \E d \in DOMAIN launch : reply_stream_end(d)
    \/ \E c \in RelayExecutors, rc \in {0, NotExited} : do_executor_main(c, rc)
    \/ \E t \in DOMAIN tasks, rc \in {0, 1} : child_exit(t, rc)
    \/ \E t \in DOMAIN tasks : do_execute_task_return(t)
    \/ \E t \in DOMAIN tasks : task_execution(t)
    \/ \E t \in DOMAIN tasks : task_execution_next(t)
    \/ \E t \in DOMAIN tasks \cup {UnknownTaskId} : task_execution_repeated(t)
    \/ \E c \in RelayExecutors : executor_disconnect(c)

SpecRelay == InitTrusted /\ [][NextRelay]_vars

\* the steps that the server and a running executor take by themselves: the
\* handlers and streams of the server, the loop of the executor and the exit
\* of a spawned command.  The requests and disconnections of commanders and
\* the disconnections and reconnections of executors are not among them.
FairRelay ==
    /\ \A ch \in 1..MaxSessions :
          /\ WF_vars(get_tasks_registered(ch))
          /\ WF_vars(get_tasks_stream(ch))
          /\ WF_vars(get_tasks_dropped(ch))
    /\ \A d \in 1..MaxDispatches :
          /\ WF_vars(\E c \in Clients : launch_task_send(d, c))
          /\ WF_vars(launch_task_emit(d))
          /\ WF_vars(reply_stream_end(d))
    /\ \A c \in RelayExecutors : WF_vars(\E rc \in {0, NotExited} : do_executor_main(c, rc))
    /\ \A t \in 1..(MaxSessions * MaxDispatches) :
          /\ WF_vars(\E rc \in {0, 1} : child_exit(t, rc))
          /\ WF_vars(do_execute_task_return(t))
          /\ WF_vars(task_execution(t))
          /\ WF_vars(task_execution_next(t))

SpecRelayLive == SpecRelay /\ FairRelay

(***************************************************************************)
(* Specification of the selection: predicates that match, do not match or  *)
(* reject an executor, sent with LaunchTask and with DropExecutor.          *)
(***************************************************************************)
\* e1: Match, Match, Rejected and NoMatch; e2: Match, NoMatch, Match and Match
MatchQueries ==
    { Wildcard, Pattern("e1"), Not(Pattern("e1")),
      FieldPattern("env", Pattern("dev")) }

NextMatch ==
    \/ \E c \in Clients :
          get_tasks(c, ExecutorKey[c], ExecutorKey[c], PROTOCOL_VERSION)
    \/ \E ch \in DOMAIN chan : get_tasks_registered(ch)
    \/ \E q \in MatchQueries :
          launch_task(LaunchPayload("ExecuteCommand", Arg(q, ""), Regular, now))
    \/ \E d \in DOMAIN launch, c \in Clients : launch_task_send(d, c)
    \/ \E d \in DOMAIN launch : launch_task_emit(d)
    \/ \E q \in MatchQueries :
          admin_drop(LaunchPayload("DropExecutor", Arg(q, ""), Admin, now))
    \/ \E c \in Clients : admin_drop_known(c)
    \/ admin_drop_connected

SpecMatch == InitTrusted /\ [][NextMatch]_vars

(***************************************************************************)
(* Specification of the drops: executors that connect, disconnect and      *)
(* connect again while administrators drop and list them.                  *)
(***************************************************************************)
NextDrop ==
    \/ \E c \in Clients :
          get_tasks(c, ExecutorKey[c], ExecutorKey[c], PROTOCOL_VERSION)
    \/ \E ch \in DOMAIN chan : get_tasks_registered(ch)
    \/ \E ch \in DOMAIN chan : get_tasks_dropped(ch)
    \/ \E c \in Clients : executor_disconnect(c)
    \/ admin(LaunchPayload("ListConnectedExecutors", Arg(Wildcard, ""), Admin, now))
    \/ \E q \in MatchQueries :
          admin_drop(LaunchPayload("DropExecutor", Arg(q, ""), Admin, now))
    \/ \E c \in Clients : admin_drop_known(c)
    \/ admin_drop_connected

SpecDrop == InitTrusted /\ [][NextDrop]_vars

(***************************************************************************)
(* Specification of the approval flow: a fresh server, an executor that    *)
(* keeps calling GetTasks, an administrator who approves its key and a     *)
(* commander who launches a command on every executor.                     *)
(***************************************************************************)
TofuExecutors == {"e1"}

NextTofu ==
    \/ \E c \in TofuExecutors :
          get_tasks(c, ExecutorKey[c], ExecutorKey[c], PROTOCOL_VERSION)
    \/ \E ch \in DOMAIN chan : get_tasks_registered(ch)
    \/ \E ch \in DOMAIN chan : get_tasks_stream(ch)
    \/ \E id \in TofuExecutors \cup {"*"} :
          admin(LaunchPayload("ApproveExecutorKey", Arg(NoQuery, id), Admin, now))
    \/ admin(LaunchPayload("ListExecutorKeys", Arg(NoQuery, ""), Admin, now))
    \/ launch_task(LaunchPayload("ExecuteCommand", Arg(Wildcard, ""), Regular, now))
    \/ \E d \in DOMAIN launch, c \in Clients : launch_task_send(d, c)
    \/ \E d \in DOMAIN launch : launch_task_emit(d)
    \/ \E d \in DOMAIN launch : reply_stream_end(d)
    \/ \E c \in TofuExecutors : do_executor_main(c, 0)
    \/ \E t \in DOMAIN tasks : do_execute_task_return(t)
    \/ \E t \in DOMAIN tasks : task_execution(t)
    \/ \E t \in DOMAIN tasks : task_execution_next(t)

SpecTofu == Init /\ [][NextTofu]_vars

(***************************************************************************)
(* Specification of the restarts: executors register and disconnect,       *)
(* administrators drop them, and the server process is restarted.          *)
(***************************************************************************)
NextRestart ==
    \/ \E c \in Clients :
          get_tasks(c, ExecutorKey[c], ExecutorKey[c], PROTOCOL_VERSION)
    \/ \E ch \in DOMAIN chan : get_tasks_registered(ch)
    \/ \E c \in Clients : executor_disconnect(c)
    \/ \E q \in {Wildcard, Pattern("e1")} :
          admin_drop(LaunchPayload("DropExecutor", Arg(q, ""), Admin, now))
    \/ \E c \in Clients : admin_drop_known(c)
    \/ admin_drop_connected
    \/ server_restart

SpecRestart == InitTrusted /\ [][NextRestart]_vars

(***************************************************************************)
(* Signing and verification on their own: a message is signed at an        *)
(* instant of the clock and the envelope is verified at later instants     *)
(* against a key store.  reply holds the envelope, the result of the last  *)
(* call and, in body, the instants and the store of the calls.             *)
(***************************************************************************)
\* a call of encode_and_sign
sign_payload(kind, key_id, signer, validity, at) ==
    /\ reply' = [op |-> "encode_and_sign", status |-> "Ok",
                 p |-> encode_and_sign_at(kind, Arg(NoQuery, "e1"), PROTOCOL_VERSION,
                                          key_id, signer, validity, at),
                 pk |-> NoKey,
                 body |-> [m |-> [kind |-> kind, arg |-> Arg(NoQuery, "e1"),
                                  ver |-> PROTOCOL_VERSION],
                           validity |-> validity, signed_at |-> at,
                           verified_at |-> at, db |-> EmptyMap]]
    /\ UNCHANGED <<exec, keystore, database_file, now, trusted_executor_keystore,
                   unapproved_executor_keystore, executor_meta_database, executors,
                   chan, tasks_sinks, tasks, launch, exe, drop>>

\* a call of decode_payload on the envelope, the clock having moved on to `at`
verify_payload(db, at) ==
    /\ reply.op \in {"encode_and_sign", "decode_payload"}
    /\ at >= reply.body.verified_at
    /\ reply' = [reply EXCEPT !.op = "decode_payload",
                              !.status = decode_payload_at(db, reply.p, at),
                              !.body.verified_at = at,
                              !.body.db = db]
    /\ UNCHANGED <<exec, keystore, database_file, now, trusted_executor_keystore,
                   unapproved_executor_keystore, executor_meta_database, executors,
                   chan, tasks_sinks, tasks, launch, exe, drop>>

\* what is signed: two kinds of message, a known and an unknown key id, the
\* key pair of the key id and another, validities of one and two seconds, any
\* instant of the first two seconds; verification at any later instant
NextSign ==
    \/ \E kind \in {"ExecuteCommand", "GetTasks"}, key_id \in {"regular", "unknown"},
          signer \in {"kr", "kx"}, validity \in {from_secs(1), from_secs(2)},
          at \in 0 .. from_secs(2) - 1 :
          sign_payload(kind, key_id, signer, validity, at)
    \/ \E db \in {authorized_keys, EmptyMap}, at \in 0 .. from_secs(MaxClockSecs) + 1 :
          verify_payload(db, at)

SpecSign == Init /\ [][NextSign]_vars

(***************************************************************************)
(* The matcher on its own: a query is evaluated against a tag or against   *)
(* the metadata of an executor.  reply holds the result in status and the  *)
(* subject and the query in body.                                          *)
(***************************************************************************)
\* the metadata of the test meta_match
Siderant ==
    ExecutorMeta("siderant",
        [f \in {"env", "roles", "os"} |->
            CASE f = "env" -> TagValue("prod")
              [] f = "roles" -> TagList(<<TagValue("foo"), TagValue("bar")>>)
              [] OTHER -> TagMap([g \in {"type", "sub_type", "version"} |->
                                    CASE g = "type" -> TagValue("Linux")
                                      [] g = "sub_type" -> TagValue("Ubuntu")
                                      [] OTHER -> TagValue("18.04")])])

\* the subjects of the test test_matches: strings, a map, lists
NonEmpty == TagList(<<TagValue("foo"), TagValue("bar"), TagValue("prod")>>)
QuerySubjects ==
    {TagValue("prod"), TagValue("qa"),
     TagMap([f \in {"env", "location"} |->
               IF f = "env" THEN TagValue("prod") ELSE TagValue("Paris")]),
     NonEmpty, TagList(<<>>), TagList(<<TagValue("foo"), TagValue("bar")>>)}
\* executors: the one of meta_match, one whose client_id is the tag value of
\* another, and one of the integration tests
QueryMetas ==
    {Siderant, ExecutorMeta("prod", TagsOf("e2")), ExecutorMeta("e1", TagsOf("e1"))}

\* the queries: patterns, field patterns, the wildcard, their negations, and
\* conjunctions and disjunctions of those
QueryAtoms ==
    {Wildcard, Pattern("prod"), Pattern("qa"), Pattern("foo"), Pattern("bar"),
     Pattern("siderant"),
     FieldPattern("env", Pattern("prod")), FieldPattern("env", Pattern("dev")),
     FieldPattern("roles", Pattern("foo")),
     FieldPattern("os", FieldPattern("type", Pattern("Linux"))),
     FieldPattern("os", FieldPattern("type", Pattern("Windows"))),
     FieldPattern("non_existing", Pattern("bar"))}
Queries ==
    LET literals == QueryAtoms \cup {Not(a) : a \in QueryAtoms}
                       \cup {Not(Not(Pattern("prod")))}
        triples == {<<a, b, c>> :
                      a, b, c \in {Pattern("prod"), Pattern("qa"), Not(Pattern("prod"))}}
        clauses == {<<>>} \cup {<<a, b>> : a, b \in literals} \cup triples
    IN  literals \cup {And(cs) : cs \in clauses} \cup {Or(cs) : cs \in clauses}

\* Tag::qmatches
tag_qmatches(x, q) ==
    /\ reply.op = ""
    /\ reply' = [op |-> "qmatches", status |-> qmatches(x, q), p |-> NoPayload,
                 pk |-> NoKey, body |-> [x |-> x, q |-> q]]
    /\ UNCHANGED <<exec, keystore, database_file, now, trusted_executor_keystore,
                   unapproved_executor_keystore, executor_meta_database, executors,
                   chan, tasks_sinks, tasks, launch, exe, drop>>

\* ExecutorMeta::qmatches
meta_qmatches(meta, q) ==
    /\ reply.op = ""
    /\ reply' = [op |-> "meta_qmatches", status |-> qmatches_meta(meta, q),
                 p |-> NoPayload, pk |-> NoKey, body |-> [meta |-> meta, q |-> q]]
    /\ UNCHANGED <<exec, keystore, database_file, now, trusted_executor_keystore,
                   unapproved_executor_keystore, executor_meta_database, executors,
                   chan, tasks_sinks, tasks, launch, exe, drop>>

\* one call in a behaviour
NextQuery ==
    \/ reply.op = "" /\ \E x \in QuerySubjects, q \in Queries : tag_qmatches(x, q)
    \/ reply.op = "" /\ \E meta \in QueryMetas, q \in Queries : meta_qmatches(meta, q)

SpecQuery == Init /\ [][NextQuery]_vars

(***************************************************************************)
(* The parser of queries (parser_ng).  The input is a string; a position   *)
(* is an index into it, from 1.  A lexer returns the position after what   *)
(* it took, or 0 when it fails; a parser returns Done(position, value) or  *)
(* Fail.                                                                   *)
(***************************************************************************)
Fail == [ok |-> FALSE, i |-> 0, v |-> Wildcard]
Done(i, v) == [ok |-> TRUE, i |-> i, v |-> v]

\* the element of a set of one element.  A result that is used more than once
\* is bound as the element of such a set, which evaluates it once.
Only(S) == CHOOSE x \in S : TRUE

\* the character of s at position i, "" past the end
Ch(s, i) == IF i >= 1 /\ i <= Len(s) THEN SubSeq(s, i, i) ELSE ""
Chars(s) == {SubSeq(s, k, k) : k \in 1..Len(s)}

\* nom's is_alphanumeric, and the constants of the parser
AlphaNumerics ==
    Chars("abcdefghijklmnopqrstuvwxyzABCDEFGHIJKLMNOPQRSTUVWXYZ0123456789")
SPECIAL_AUTHORIZED_CHARS == Chars("-_@#.")
MultiSpace == {" ", "\t", "\r", "\n"}
\* the argument of is_not in word
WordStops == Chars(" ():,&|")

\* to_lowercase of a string, as tag_no_case compares
RECURSIVE LowerStr(_)
LowerStr(x) ==
    IF Len(x) = 0 THEN ""
    ELSE Only({(IF upper = {} THEN SubSeq(x, 1, 1)
                ELSE Only({SubSeq("abcdefghijklmnopqrstuvwxyz", k, k) : k \in upper}))
               \o LowerStr(SubSeq(x, 2, Len(x))) :
               upper \in {{k \in 1..26 :
                             SubSeq("ABCDEFGHIJKLMNOPQRSTUVWXYZ", k, k) = SubSeq(x, 1, 1)}}})

\* tag and tag_no_case (t is in lower case)
tag(s, i, t) ==
    IF i + Len(t) - 1 <= Len(s) /\ SubSeq(s, i, i + Len(t) - 1) = t
    THEN i + Len(t) ELSE 0
tag_no_case(s, i, t) ==
    IF i + Len(t) - 1 <= Len(s) /\ LowerStr(SubSeq(s, i, i + Len(t) - 1)) = t
    THEN i + Len(t) ELSE 0

\* multispace0, and multispace1 which wants one white space at least
RECURSIVE multispace0(_, _)
multispace0(s, i) ==
    IF Ch(s, i) \in MultiSpace THEN multispace0(s, i + 1) ELSE i
multispace1(s, i) == IF Ch(s, i) \in MultiSpace THEN multispace0(s, i) ELSE 0

\* is_not(stops): the longest run of characters outside stops, not empty
RECURSIVE span_not(_, _, _)
span_not(s, i, stops) ==
    IF i <= Len(s) /\ Ch(s, i) \notin stops THEN span_not(s, i + 1, stops) ELSE i
is_not(s, i, stops) ==
    Only({IF e = i THEN 0 ELSE e : e \in {span_not(s, i, stops)}})

\* take_while1 of field_name: alphanumerics and the special characters
RECURSIVE span_field_name(_, _)
span_field_name(s, i) ==
    IF Ch(s, i) \in AlphaNumerics \cup SPECIAL_AUTHORIZED_CHARS
    THEN span_field_name(s, i + 1) ELSE i
field_name(s, i) ==
    Only({IF e = i THEN 0 ELSE e : e \in {span_field_name(s, i)}})

RECURSIVE expression(_, _)
RECURSIVE factor(_, _)

\* wildcard
wildcard(s, i) ==
    IF Ch(s, i) = "*" THEN Done(multispace0(s, i + 1), Wildcard) ELSE Fail

\* word: is_not(" ():,&|") and the white space after it
word(s, i) ==
    Only({IF e = 0 THEN Fail ELSE Done(multispace0(s, e), SubSeq(s, i, e - 1)) :
          e \in {is_not(s, i, WordStops)}})

\* quoted: a quote, a non-empty run without quote, a quote, white space
quoted(s, i) ==
    Only({IF Ch(s, i) = "\"" /\ e # 0 /\ Ch(s, e) = "\""
          THEN Done(multispace0(s, e + 1), SubSeq(s, i + 1, e - 1))
          ELSE Fail :
          e \in {is_not(s, i + 1, {"\""})}})

\* the second half of field_text: ":" factor after the field name that ends at e
field_value(s, i, e) ==
    IF e # 0 /\ Ch(s, e) = ":"
    THEN Only({IF f.ok THEN Done(f.i, FieldPattern(SubSeq(s, i, e - 1), f.v)) ELSE Fail :
               f \in {factor(s, e + 1)}})
    ELSE Fail

\* field_text: field_name ":" factor
field_text(s, i) == Only({field_value(s, i, e) : e \in {field_name(s, i)}})

\* a word or a quoted string as a pattern
map_pattern(r) == IF r.ok THEN Done(r.i, Pattern(r.v)) ELSE Fail

\* alt of two results: the first if it parsed, else the second
alt(a, b) == IF a.ok THEN a ELSE b

\* query: alt((wildcard, field_text, quoted, word))
query(s, i) ==
    Only({alt(w, Only({alt(f, Only({alt(map_pattern(q),
                                        Only({map_pattern(x) : x \in {word(s, i)}})) :
                                    q \in {quoted(s, i)}})) :
                       f \in {field_text(s, i)}})) :
          w \in {wildcard(s, i)}})

\* parens: "(" expression ")" with white space after each parenthesis
parens(s, i) ==
    IF Ch(s, i) = "("
    THEN Only({IF e.ok /\ Ch(s, e.i) = ")" THEN Done(multispace0(s, e.i + 1), e.v)
               ELSE Fail :
               e \in {expression(s, multispace0(s, i + 1))}})
    ELSE Fail

\* factor: alt((parens, query))
factor(s, i) == Only({alt(p, query(s, i)) : p \in {parens(s, i)}})

\* not_tags: alt((tag_no_case("not"), tag("!")))
not_tags(s, i) ==
    IF tag_no_case(s, i, "not") # 0 THEN tag_no_case(s, i, "not") ELSE tag(s, i, "!")

\* a parser's result under map(RawQuery::not)
map_not(r) == IF r.ok THEN Done(r.i, Not(r.v)) ELSE Fail

\* preceded(lexer, factor) and preceded(lexer, parens) under map(RawQuery::not),
\* the lexer having ended at position p (0 when it failed)
not_of_factor(s, p) ==
    IF p # 0 THEN Only({map_not(f) : f \in {factor(s, p)}}) ELSE Fail
not_of_parens(s, p) ==
    IF p # 0 THEN Only({map_not(f) : f \in {parens(s, p)}}) ELSE Fail

\* the positions after "not" and white space, and after "!" and optional white space
not_keyword(s, i) ==
    IF tag_no_case(s, i, "not") = 0 THEN 0 ELSE multispace1(s, tag_no_case(s, i, "not"))
not_bang(s, i) ==
    IF tag(s, i, "!") = 0 THEN 0 ELSE multispace0(s, tag(s, i, "!"))

\* not_factor: "not" white space factor | "!" factor | not_tags parens | factor
not_factor(s, i) ==
    Only({alt(a1, Only({alt(a2, Only({alt(a3, factor(s, i)) :
                                      a3 \in {not_of_parens(s, not_tags(s, i))}})) :
                        a2 \in {not_of_factor(s, not_bang(s, i))}})) :
          a1 \in {not_of_factor(s, not_keyword(s, i))}})

\* the separator of and: "and" and white space, or "&&" and optional white space
and_separator(s, i) ==
    IF tag_no_case(s, i, "and") # 0 /\ multispace1(s, tag_no_case(s, i, "and")) # 0
    THEN multispace1(s, tag_no_case(s, i, "and"))
    ELSE IF tag(s, i, "&&") # 0 THEN multispace0(s, tag(s, i, "&&"))
    ELSE 0

\* separated_list1 after its first element: separator and element, as long as
\* both parse; acc holds the elements and i the position after the last one
RECURSIVE and_list(_, _, _)
and_list(s, i, acc) ==
    Only({IF sep = 0 THEN Done(i, acc)
          ELSE Only({IF r.ok THEN and_list(s, r.i, Append(acc, r.v)) ELSE Done(i, acc) :
                     r \in {not_factor(s, sep)}}) :
          sep \in {and_separator(s, i)}})

\* a list of one clause stands for the clause
and_clauses(l) == Done(l.i, IF Len(l.v) = 1 THEN l.v[1] ELSE And(l.v))
or_clauses(l) == Done(l.i, IF Len(l.v) = 1 THEN l.v[1] ELSE Or(l.v))

\* and: separated_list1(separator, not_factor)
and(s, i) ==
    Only({IF first.ok
          THEN Only({and_clauses(l) : l \in {and_list(s, first.i, <<first.v>>)}})
          ELSE Fail :
          first \in {not_factor(s, i)}})

\* a mutant of term: a term is one not_factor
term_not_factor(s, i) == not_factor(s, i)

\* term: alt((and, not_factor))
term(s, i) == Only({alt(a, not_factor(s, i)) : a \in {and(s, i)}})

\* the separator of or: "or" and white space, or "||" or "," and optional white space
or_separator(s, i) ==
    IF tag_no_case(s, i, "or") # 0 /\ multispace1(s, tag_no_case(s, i, "or")) # 0
    THEN multispace1(s, tag_no_case(s, i, "or"))
    ELSE IF tag(s, i, "||") # 0 THEN multispace0(s, tag(s, i, "||"))
    ELSE IF tag(s, i, ",") # 0 THEN multispace0(s, tag(s, i, ","))
    ELSE 0

RECURSIVE or_list(_, _, _)
or_list(s, i, acc) ==
    Only({IF sep = 0 THEN Done(i, acc)
          ELSE Only({IF r.ok THEN or_list(s, r.i, Append(acc, r.v)) ELSE Done(i, acc) :
                     r \in {term(s, sep)}}) :
          sep \in {or_separator(s, i)}})

\* or: separated_list1(separator, term)
or(s, i) ==
    Only({IF first.ok
          THEN Only({or_clauses(l) : l \in {or_list(s, first.i, <<first.v>>)}})
          ELSE Fail :
          first \in {term(s, i)}})

\* expression, the entry point
expression(s, i) == or(s, i)

\* parse_raw: complete(expression) from the start of the input
parse_raw(s) == expression(s, 1)

\* Result<Query, QueryParseError> of parse, from the result of parse_raw
parse_result(s, ret) ==
    IF ~ret.ok THEN [status |-> "ParseError", q |-> ParseError]
    ELSE IF ret.i <= Len(s) THEN [status |-> "UnrecognizedInput", q |-> ParseError]
    ELSE [status |-> "Ok", q |-> ret.v]

\* parse: the query, or the error ParseError or UnrecognizedInput
parse(s) == Only({parse_result(s, ret) : ret \in {parse_raw(s)}})

\* the spellings of the operators, with and without white space
AndSpellings == {" and ", " AND ", "&&", " && "}
OrSpellings == {" or ", " Or ", "||", " || ", ",", ", "}
NotSpellings == {"!", "! ", "not ", "NOT "}

\* every string of up to n characters out of twelve
RECURSIVE StringsUpTo(_)
StringsUpTo(n) ==
    IF n = 0 THEN {""}
    ELSE StringsUpTo(n - 1)
         \cup {x \o c : x \in {y \in StringsUpTo(n - 1) : Len(y) = n - 1},
                        c \in {"a", "!", "*", " ", "(", ")", ":", ",", "&", "|", "\"", "%"}}

\* the inputs: those of the precedence tests in every spelling, inputs of the
\* other tests and of the documentation, and every short string
ParseInputs ==
    {"foo" \o o \o "bar" \o a \o "baz" : o \in OrSpellings, a \in AndSpellings}
    \cup {"foo" \o a \o "bar" \o o \o "baz" : o \in OrSpellings, a \in AndSpellings}
    \cup {n \o "a" \o a \o "b" : n \in NotSpellings, a \in AndSpellings}
    \cup {"(a" \o o \o "b)" \o a \o "c" : o \in OrSpellings, a \in AndSpellings}
    \cup {"", "*", "coucou_les-amis1234", "field:pattern", "field:sub_field:*",
          "w1.prod, w2.prod", "not(foobar:baz)", "! (foobar:baz)",
          "env:prod and siderant", "env:prod and !siderant", "env:!prod", "env:pro*d",
          "foo bar", "foo and", "(foo", "\"foo bar\"", "env:\"!prod\""}
    \cup StringsUpTo(MaxInputLen)

\* a call of parse
parse_query(input) ==
    /\ reply.op = ""
    /\ \E ret \in {parse_raw(input)} :
          reply' = [op |-> "parse", status |-> parse_result(input, ret).status,
                    p |-> NoPayload, pk |-> NoKey,
                    body |-> [input |-> input, q |-> parse_result(input, ret).q,
                              raw_ok |-> ret.ok,
                              consumed |-> IF ret.ok THEN ret.i - 1 ELSE 0]]
    /\ UNCHANGED <<exec, keystore, database_file, now, trusted_executor_keystore,
                   unapproved_executor_keystore, executor_meta_database, executors,
                   chan, tasks_sinks, tasks, launch, exe, drop>>

\* one call in a behaviour
NextParse == reply.op = "" /\ \E input \in ParseInputs : parse_query(input)

SpecParse == Init /\ [][NextParse]_vars

(***************************************************************************)
(* A file-backed key store on its own: a process opens the store, registers *)
(* and removes keys from several tasks, drops the store and opens it again. *)
(***************************************************************************)
\* the calls of one handle that may be between their write and their save
MaxSaves == 2

\* file_keystore: a path without a file gets the file of an empty map, an
\* existing file is loaded
file_keystore ==
    /\ ~keystore.open
    /\ keystore' =
          IF ~keystore.file.exists
          THEN [keystore EXCEPT !.open = TRUE, !.db = EmptyMap,
                                !.file = save(keystore.file, EmptyMap)]
          ELSE [keystore EXCEPT !.open = TRUE, !.db = load(keystore.file)]
    /\ UNCHANGED <<exec, now, trusted_executor_keystore, unapproved_executor_keystore,
                   executor_meta_database, database_file, executors, chan,
                   tasks_sinks, tasks, launch, exe, drop, reply>>

\* FileKeyStoreBackend::insert_key up to the save: the write of the map
insert_key(key_id, key_bytes) ==
    /\ keystore.open
    /\ keystore.saves < MaxSaves
    /\ keystore' = [keystore EXCEPT !.db = register_key(@, key_id, key_bytes),
                                    !.saves = @ + 1]
    /\ UNCHANGED <<exec, now, trusted_executor_keystore, unapproved_executor_keystore,
                   executor_meta_database, database_file, executors, chan,
                   tasks_sinks, tasks, launch, exe, drop, reply>>

\* FileKeyStoreBackend::remove_key up to the save: a key that is not in the
\* map is an error and nothing is saved
file_remove_key(key_id) ==
    /\ keystore.open
    /\ keystore.saves < MaxSaves
    /\ IF key_id \in DOMAIN keystore.db
       THEN /\ keystore' = [keystore EXCEPT !.db = remove_key(@, key_id),
                                            !.saves = @ + 1]
            /\ UNCHANGED reply
       ELSE /\ reply' = Reply("remove_key", "KeyNotFound", NoPayload, {key_id})
            /\ UNCHANGED keystore
    /\ UNCHANGED <<exec, now, trusted_executor_keystore, unapproved_executor_keystore,
                   executor_meta_database, database_file, executors, chan,
                   tasks_sinks, tasks, launch, exe, drop>>

\* the save that ends insert_key and remove_key
keystore_save ==
    /\ keystore.open
    /\ keystore.saves > 0
    /\ keystore' = [keystore EXCEPT !.file = save(@, keystore.db),
                                    !.saves = @ - 1]
    /\ UNCHANGED <<exec, now, trusted_executor_keystore, unapproved_executor_keystore,
                   executor_meta_database, database_file, executors, chan,
                   tasks_sinks, tasks, launch, exe, drop, reply>>

\* the store is dropped, once no call borrows it
keystore_drop ==
    /\ keystore.open
    /\ keystore.saves = 0
    /\ keystore' = [keystore EXCEPT !.open = FALSE, !.db = EmptyMap,
                                    !.before = keystore.db]
    /\ UNCHANGED <<exec, now, trusted_executor_keystore, unapproved_executor_keystore,
                   executor_meta_database, database_file, executors, chan,
                   tasks_sinks, tasks, launch, exe, drop, reply>>

NextStore ==
    \/ file_keystore
    \/ \E key_id \in {"abcd", "regular"}, key_bytes \in {"kr", "kx"} :
          insert_key(key_id, key_bytes)
    \/ \E key_id \in {"abcd", "regular"} : file_remove_key(key_id)
    \/ keystore_save
    \/ keystore_drop

SpecStore == Init /\ [][NextStore]_vars

(***************************************************************************)
(* exec_command on its own: the child process writes its lines and exits,   *)
(* the two readers and wait_for_exit run as three tasks of the runtime and  *)
(* send into one channel.  events is what the receiver gets.                *)
(***************************************************************************)
\* ExecEvent
Started == [kind |-> "Started", ty |-> "", line |-> "", code |-> 0]
LineEmitted(ty, line) == [kind |-> "LineEmitted", ty |-> ty, line |-> line, code |-> 0]
Finished(code) == [kind |-> "Finished", ty |-> "", line |-> "", code |-> code]

\* the commands: the lines the shell writes, in order, and its exit code
Commands ==
    { [prog |-> <<<<"Out", "foo">>, <<"Out", "bar">>>>, code |-> 0],
      [prog |-> <<<<"Out", "foo">>>>, code |-> 123],
      [prog |-> <<<<"Err", "bar">>>>, code |-> 5],
      [prog |-> <<<<"Out", "foo">>, <<"Err", "bar">>, <<"Out", "baz">>>>, code |-> 0],
      [prog |-> <<>>, code |-> 1] }

\* exec_command: the child is spawned with its pipes, then the two readers and
\* wait_for_exit are spawned
exec_command(command) ==
    /\ exec.st = "none"
    /\ exec' = [st |-> "spawned", prog |-> command.prog, code |-> command.code,
                child |-> "running",
                pipe |-> [ty \in {"Out", "Err"} |-> <<>>],
                reader |-> [ty \in {"Out", "Err"} |-> "reading"],
                waiter |-> "spawned", events |-> <<>>, written |-> <<>>]
    /\ UNCHANGED <<keystore, now, trusted_executor_keystore,
                   unapproved_executor_keystore, executor_meta_database,
                   database_file, executors, chan, tasks_sinks, tasks, launch,
                   exe, drop, reply>>

\* the shell writes its next line into the pipe of the stream
sh_write ==
    /\ exec.child = "running"
    /\ exec.prog # <<>>
    /\ LET w == Head(exec.prog)
       IN  exec' = [exec EXCEPT !.prog = Tail(@),
                                !.pipe[w[1]] = Append(@, w[2]),
                                !.written = Append(@, w)]
    /\ UNCHANGED <<keystore, now, trusted_executor_keystore,
                   unapproved_executor_keystore, executor_meta_database,
                   database_file, executors, chan, tasks_sinks, tasks, launch,
                   exe, drop, reply>>

\* the shell exits: the write ends of its pipes are closed
sh_exit ==
    /\ exec.child = "running"
    /\ exec.prog = <<>>
    /\ exec' = [exec EXCEPT !.child = "exited"]
    /\ UNCHANGED <<keystore, now, trusted_executor_keystore,
                   unapproved_executor_keystore, executor_meta_database,
                   database_file, executors, chan, tasks_sinks, tasks, launch,
                   exe, drop, reply>>

\* read_output_stream, one turn of its loop: the next line is sent, or the
\* end of the file ends the task
read_output_stream(stream_type) ==
    /\ exec.reader[stream_type] = "reading"
    /\ IF exec.pipe[stream_type] # <<>>
       THEN exec' = [exec EXCEPT
                !.pipe[stream_type] = Tail(@),
                !.events = Append(@, LineEmitted(stream_type,
                                                 Head(exec.pipe[stream_type])))]
       ELSE /\ exec.child = "exited"
            /\ exec' = [exec EXCEPT !.reader[stream_type] = "done"]
    /\ UNCHANGED <<keystore, now, trusted_executor_keystore,
                   unapproved_executor_keystore, executor_meta_database,
                   database_file, executors, chan, tasks_sinks, tasks, launch,
                   exe, drop, reply>>

\* join_all(streams_join) is ready
streams_joined(reader) == \A ty \in DOMAIN reader : reader[ty] = "done"

\* wait_for_exit, from its first poll: Started is sent
wait_for_exit_started ==
    /\ exec.waiter = "spawned"
    /\ exec' = [exec EXCEPT !.waiter = "join", !.events = Append(@, Started)]
    /\ UNCHANGED <<keystore, now, trusted_executor_keystore,
                   unapproved_executor_keystore, executor_meta_database,
                   database_file, executors, chan, tasks_sinks, tasks, launch,
                   exe, drop, reply>>

\* wait_for_exit: the two readers have ended
wait_for_exit_joined ==
    /\ exec.waiter = "join"
    /\ streams_joined(exec.reader)
    /\ exec' = [exec EXCEPT !.waiter = "child"]
    /\ UNCHANGED <<keystore, now, trusted_executor_keystore,
                   unapproved_executor_keystore, executor_meta_database,
                   database_file, executors, chan, tasks_sinks, tasks, launch,
                   exe, drop, reply>>

\* wait_for_exit: the child has exited, Finished is sent and the task ends
wait_for_exit_finished ==
    /\ exec.waiter = "child"
    /\ exec.child = "exited"
    /\ exec' = [exec EXCEPT !.waiter = "done", !.st = "closed",
                            !.events = Append(@, Finished(exec.code))]
    /\ UNCHANGED <<keystore, now, trusted_executor_keystore,
                   unapproved_executor_keystore, executor_meta_database,
                   database_file, executors, chan, tasks_sinks, tasks, launch,
                   exe, drop, reply>>

NextExec ==
    \/ \E command \in Commands : exec_command(command)
    \/ sh_write
    \/ sh_exit
    \/ \E stream_type \in {"Out", "Err"} : read_output_stream(stream_type)
    \/ wait_for_exit_started
    \/ wait_for_exit_joined
    \/ wait_for_exit_finished

SpecExec == Init /\ [][NextExec]_vars

(***************************************************************************)
(* Specification of the reconnection: executor e1 is alive and calls        *)
(* GetTasks whenever it has no stream, executor e2 is known and not alive;  *)
(* commanders launch commands and an administrator drops executors.  One    *)
(* DropExecutor that removes something is sent, so that the sessions of the *)
(* model suffice for the executor to come back.                             *)
(***************************************************************************)
AliveExecutors == {"e1"}

NextReconnect ==
    \/ \E c \in AliveExecutors :
          get_tasks(c, ExecutorKey[c], ExecutorKey[c], PROTOCOL_VERSION)
    \/ \E ch \in DOMAIN chan : get_tasks_registered(ch)
    \/ \E ch \in DOMAIN chan : get_tasks_stream(ch)
    \/ \E ch \in DOMAIN chan : get_tasks_stream_end(ch)
    \/ \E c \in AliveExecutors : do_executor_main(c, 0)
    \/ \E c \in AliveExecutors : do_executor_main_end(c)
    \/ launch_task(LaunchPayload("ExecuteCommand", Arg(Wildcard, ""), Regular, now))
    \/ \E d \in DOMAIN launch, c \in Clients : launch_task_send(d, c)
    \/ \E d \in DOMAIN launch : launch_task_emit(d)
    \/ /\ DOMAIN drop.cut = {}
       /\ \E q \in {Wildcard, Pattern("e1"), Pattern("e2")} :
             admin_drop(LaunchPayload("DropExecutor", Arg(q, ""), Admin, now))
    \/ \E c \in Clients : admin_drop_known(c)
    \/ admin_drop_connected

SpecReconnect == InitTrusted /\ [][NextReconnect]_vars

\* the server's handlers and streams and the executor's loop keep running; the
\* requests of commanders and administrators need not come
FairReconnect ==
    /\ \A c \in AliveExecutors :
          WF_vars(get_tasks(c, ExecutorKey[c], ExecutorKey[c], PROTOCOL_VERSION))
    /\ \A c \in AliveExecutors : WF_vars(do_executor_main(c, 0))
    /\ \A c \in AliveExecutors : WF_vars(do_executor_main_end(c))
    /\ \A ch \in 1..MaxSessions :
          /\ WF_vars(get_tasks_registered(ch))
          /\ WF_vars(get_tasks_stream(ch))
          /\ WF_vars(get_tasks_stream_end(ch))
    /\ \A d \in 1..MaxDispatches :
          /\ WF_vars(\E c \in Clients : launch_task_send(d, c))
          /\ WF_vars(launch_task_emit(d))
    /\ WF_vars(\E c \in Clients : admin_drop_known(c))
    /\ WF_vars(admin_drop_connected)

SpecReconnectLive == SpecReconnect /\ FairReconnect

(***************************************************************************)
(* Specification of the handshake: executor e1 is the program of the        *)
(* repository; the process of e2, an approved executor, builds its          *)
(* RegisterExecutorRequest as it likes with the keys it has: its own key    *)
(* pair and the public keys of the others.                                  *)
(***************************************************************************)
\* the signed GetTasksRequest: key id, signing key pair, client_id inside
ForgedRequest(key_id, signer, client_id) ==
    encode_and_sign("GetTasks", Arg(NoQuery, client_id), PROTOCOL_VERSION,
                    key_id, signer, now)

NextHandshake ==
    \/ get_tasks("e1", ExecutorKey["e1"], ExecutorKey["e1"], PROTOCOL_VERSION)
    \/ \E client_id \in Clients, public_key \in Range(ExecutorKey),
          key_id \in Clients, inner \in Clients :
          get_tasks_request("e2", client_id, public_key,
                            ForgedRequest(key_id, ExecutorKey["e2"], inner))
    \/ \E ch \in DOMAIN chan : get_tasks_registered(ch)
    \/ \E ch \in DOMAIN chan : get_tasks_stream(ch)
    \/ launch_task(LaunchPayload("ExecuteCommand", Arg(Pattern("e1"), ""), Regular, now))
    \/ \E d \in DOMAIN launch, c \in Clients : launch_task_send(d, c)
    \/ \E d \in DOMAIN launch : launch_task_emit(d)
    \/ executor_disconnect("e1")

SpecHandshake == InitTrusted /\ [][NextHandshake]_vars

(***************************************************************************)
(* Specification of the attribution: the two executors are approved and     *)
(* connect with the program of the repository; the process of either may    *)
(* also call TaskExecution with a task id and a client_id of its choice,    *)
(* or without a task id.                                                    *)
(***************************************************************************)
NextAttribution ==
    \/ \E c \in Clients :
          get_tasks(c, ExecutorKey[c], ExecutorKey[c], PROTOCOL_VERSION)
    \/ \E ch \in DOMAIN chan : get_tasks_registered(ch)
    \/ \E ch \in DOMAIN chan : get_tasks_stream(ch)
    \/ \E q \in {Wildcard, Pattern("e1")} :
          launch_task(LaunchPayload("ExecuteCommand", Arg(q, ""), Regular, now))
    \/ \E d \in DOMAIN launch, c \in Clients : launch_task_send(d, c)
    \/ \E d \in DOMAIN launch : launch_task_emit(d)
    \/ \E c \in Clients : do_executor_main(c, 0)
    \/ \E t \in DOMAIN tasks : task_execution(t)
    \/ \E t \in DOMAIN tasks : task_execution_next(t)
    \/ \E c \in Clients, t \in DOMAIN tasks, client_id \in Clients :
          task_execution_by(c, t, client_id)
    \/ \E c \in Clients, torn \in BOOLEAN : task_execution_without_task_id(c, torn)

SpecAttribution == InitTrusted /\ [][NextAttribution]_vars

(***************************************************************************)
(* Properties.                                                             *)
(***************************************************************************)
SynthesizedKinds == {"TaskSubmitted", "Disconnected"}

\* C1: in every dispatch, an event forwarded from executor E by the
\* TaskExecution handler comes after the TaskSubmitted or Disconnected event
\* the LaunchTask handler emits for E.
C1_SynthesizedBeforeForwarded ==
    \A d \in DOMAIN launch :
        \A i \in DOMAIN launch[d].stream :
            ~launch[d].stream[i].synth =>
                \E j \in 1..(i - 1) :
                    /\ launch[d].stream[j].synth
                    /\ launch[d].stream[j].kind \in SynthesizedKinds
                    /\ launch[d].stream[j].client_id = launch[d].stream[i].client_id

\* no registration and no drop is under way
RegistryQuiescent ==
    /\ drop.pc = "idle"
    /\ \A ch \in DOMAIN chan : chan[ch].st # "registering"

\* C2: once the registrations and drops that were started have completed,
\* every client_id of the connected map is in the known map.
C2_ConnectedAreKnown ==
    RegistryQuiescent => DOMAIN executors \subseteq DOMAIN executor_meta_database

\* C2 witness: a drop has been answered, two sessions have been admitted,
\* nothing is under way and an executor is connected.
C2_Witness ==
    /\ RegistryQuiescent
    /\ reply.op = "Admin" /\ reply.p.kind = "DropExecutor" /\ reply.body # {}
    /\ Len(chan) >= 2
    /\ DOMAIN executors # {}

\* C3: no client_id has an entry in both executor key stores.
C3_KeyStoresDisjoint ==
    DOMAIN trusted_executor_keystore \cap DOMAIN unapproved_executor_keystore = {}

\* the sessions and the task frames a step creates
NewSessions == DOMAIN chan' \ DOMAIN chan
Last(q) == q[Len(q)]

Delivered(ch) == ch \in DOMAIN chan /\ Len(chan'[ch].q) > Len(chan[ch].q)

\* C5: LaunchTask starts a fan-out only for a payload that verifies against
\* authorized_keys, every item put into an inbox is the payload of such a
\* fan-out, and a request whose payload does not verify is answered with an
\* error and puts nothing into any inbox.
C5_DeliveredIsAuthorized ==
    [][ /\ \A d \in DOMAIN launch' \ DOMAIN launch :
              decode_payload(authorized_keys, launch'[d].p, now) = "Ok"
        /\ \A ch \in DOMAIN chan' :
              Delivered(ch) =>
                  /\ Last(chan'[ch].q).d \in DOMAIN launch
                  /\ Last(chan'[ch].q).p = launch[Last(chan'[ch].q).d].p
        /\ (reply' # reply /\ reply'.op = "LaunchTask"
              /\ decode_payload(authorized_keys, reply'.p, now) # "Ok")
              => reply'.status # "Ok" /\ UNCHANGED <<chan, launch>>
      ]_vars

\* C5 witness: a payload is in an inbox and the last LaunchTask, signed by the
\* key that is in admin_authorized_keys only, was answered with an error.
C5_Witness ==
    /\ \E ch \in DOMAIN chan : chan[ch].q # <<>>
    /\ reply.op = "LaunchTask" /\ reply.status # "Ok"
    /\ reply.p.key_id = Admin[1] /\ reply.p.signer = Admin[2]

\* the step in which a DropExecutor, verified when it arrived, is answered
DropAnswered == drop.pc = "run" /\ drop'.pc = "idle"

\* does the payload verify against the admin keys now / is its signature good
AdminVerifies(p) == decode_payload(authorized_admin_keys, p, now) = "Ok"
AdminSigned(p) == verify_signature(authorized_admin_keys, p.key_id, p.signer) = "Ok"

\* C6: an admin request gets a response, changes a key store or starts a drop
\* only if its payload verifies against admin_authorized_keys; otherwise it
\* gets an error that carries no listing and the registry and the executor key
\* stores stay as they were.
C6_AdminOnlyWithAdminKey ==
    [][ /\ (reply' # reply /\ reply'.op = "Admin") =>
              /\ reply'.status = "Ok" => AdminSigned(reply'.p)
              /\ (reply'.status = "Ok" /\ reply'.p.kind # "DropExecutor")
                    => AdminVerifies(reply'.p)
              /\ (~AdminVerifies(reply'.p) /\ ~DropAnswered) =>
                    /\ reply'.status # "Ok"
                    /\ reply'.body = NoBody
                    /\ UNCHANGED <<registryVars, keyVars>>
        /\ (drop.pc = "idle" /\ drop'.pc = "run") => AdminVerifies(drop'.p)
        /\ trusted_executor_keystore' # trusted_executor_keystore =>
              /\ reply'.op = "Admin" /\ reply'.status = "Ok"
              /\ AdminVerifies(reply'.p)
        /\ (\E c \in DOMAIN executor_meta_database :
                c \notin DOMAIN executor_meta_database')
              => drop.pc = "run" /\ AdminSigned(drop.p)
      ]_vars

\* C6 witness: a key is pending and the last request, ApproveExecutorKey signed
\* by another key under the id of an admin key, was answered with an error.
C6_Witness ==
    /\ DOMAIN unapproved_executor_keystore # {}
    /\ reply.op = "Admin" /\ reply.status # "Ok"
    /\ reply.p.kind = "ApproveExecutorKey"
    /\ reply.p.key_id = UnauthorizedAdmin[1] /\ reply.p.signer = UnauthorizedAdmin[2]

\* C7: a key task starts a fan-out, and is put into an inbox, only if its
\* payload verifies against authorized_keys and against admin_authorized_keys;
\* otherwise the request is answered with an error and no inbox receives it.
C7_KeyTasksNeedBothStores ==
    [][ /\ \A d \in DOMAIN launch' \ DOMAIN launch :
              launch'[d].p.kind \in KeyTasks =>
                  /\ decode_payload(authorized_keys, launch'[d].p, now) = "Ok"
                  /\ AdminVerifies(launch'[d].p)
        /\ \A ch \in DOMAIN chan' :
              (Delivered(ch) /\ Last(chan'[ch].q).p.kind \in KeyTasks) =>
                  /\ AdminSigned(Last(chan'[ch].q).p)
                  /\ verify_signature(authorized_keys, Last(chan'[ch].q).p.key_id,
                                      Last(chan'[ch].q).p.signer) = "Ok"
        /\ (reply' # reply /\ reply'.op = "LaunchTask" /\ reply'.p.kind \in KeyTasks
              /\ ~(decode_payload(authorized_keys, reply'.p, now) = "Ok"
                   /\ AdminVerifies(reply'.p)))
              => reply'.status # "Ok" /\ UNCHANGED <<chan, launch>>
      ]_vars

\* C7 witness: an AuthorizeKey task is in an inbox and the last LaunchTask, an
\* AuthorizeKey signed by a regular key, was refused.
C7_Witness ==
    /\ \E ch \in DOMAIN chan : \E i \in DOMAIN chan[ch].q :
          chan[ch].q[i].p.kind = "AuthorizeKey"
    /\ reply.op = "LaunchTask" /\ reply.status = "FailedPrecondition"
    /\ reply.p.kind = "AuthorizeKey" /\ reply.p.key_id = Regular[1]

AuthenticationErrors == {"KeyNotFound", "WrongSignature", "ExpiredSignature"}

\* C9: a LaunchTask whose payload fails the verification against
\* authorized_keys, and an Admin request whose payload fails it against
\* admin_authorized_keys, with KeyNotFound, WrongSignature or ExpiredSignature,
\* is answered with PermissionDenied.
C9_AuthFailureIsPermissionDenied ==
    [][ /\ (reply' # reply /\ reply'.op = "LaunchTask"
              /\ decode_payload(authorized_keys, reply'.p, now) \in AuthenticationErrors)
              => reply'.status = "PermissionDenied"
        /\ (reply' # reply /\ reply'.op = "Admin" /\ ~DropAnswered
              /\ decode_payload(authorized_admin_keys, reply'.p, now) \in AuthenticationErrors)
              => reply'.status = "PermissionDenied"
      ]_vars

\* the frame the executor of a session takes next, if the step takes one
Handled(t) ==
    /\ t \in DOMAIN tasks
    /\ tasks[t].rpc = "none" /\ tasks[t].ev = <<>> /\ tasks'[t].ev # <<>>

SynthesizedFor(d, c, k) ==
    {i \in DOMAIN launch[d].stream :
        /\ launch[d].stream[i].synth
        /\ launch[d].stream[i].kind = k
        /\ launch[d].stream[i].client_id = c}

\* C10: for every matching executor the handler has dealt with, the stream
\* holds exactly one synthesized event: Disconnected with no send attempted
\* when it had no channel, TaskSubmitted after one send that succeeded,
\* Disconnected after one send that failed; nothing is sent or emitted for an
\* executor before its turn, and no inbox gets a dispatch twice.
C10_OneEventPerExecutor ==
    \A d \in DOMAIN launch : \A c \in DOMAIN launch[d].senders :
        LET submitted == Cardinality(SynthesizedFor(d, c, "TaskSubmitted"))
            disconnected == Cardinality(SynthesizedFor(d, c, "Disconnected"))
            attempts == launch[d].attempts[c]
            sent == launch[d].sent[c]
        IN  /\ sent <= attempts /\ attempts <= 1
            /\ IF c \in launch[d].todo
               THEN /\ submitted + disconnected = 0
                    /\ attempts = (IF c = launch[d].cur THEN 1 ELSE 0)
               ELSE /\ submitted + disconnected = 1
                    /\ submitted = sent
                    /\ attempts = (IF launch[d].senders[c] = 0 THEN 0 ELSE 1)

\* C10 witness: a dispatch has completed in which the send to one executor
\* failed and the send to another succeeded.
C10_Witness ==
    \E d \in DOMAIN launch :
        /\ launch[d].pc = "done"
        /\ \E c \in DOMAIN launch[d].senders :
              launch[d].attempts[c] = 1 /\ launch[d].sent[c] = 0
        /\ \E c \in DOMAIN launch[d].senders : launch[d].sent[c] = 1

\* C11: the sink of a task id is in tasks_sinks while the first
\* TaskExecution stream for the task is open and is gone once that stream
\* has ended; a TaskExecution answered NotFound names an id that has no sink.
C11_SinkKeptWhileStreamOpen ==
    /\ \A t \in DOMAIN tasks :
          /\ tasks[t].rpc = "open" => t \in DOMAIN tasks_sinks
          /\ tasks[t].rpc \in {"ok", "err"} => t \notin DOMAIN tasks_sinks
    /\ (reply.op = "TaskExecution" /\ reply.status = "NotFound")
          => reply.body \cap DOMAIN tasks_sinks = {}

\* the dispatch d has nothing left to hand over: no payload of it waits in an
\* inbox and no TaskExecution call relays into its reply channel
DispatchSettled(d) ==
    /\ \A ch \in DOMAIN chan :
          \A i \in DOMAIN chan[ch].q : chan[ch].q[i].d # d
    /\ \A t \in DOMAIN tasks : tasks[t].d = d => tasks[t].rpc # "open"

\* the executor process that received the frame of task t is gone
ExecutorGone(t) == exe[chan[tasks[t].ch].owner].ch # tasks[t].ch

\* C12: once the commander's reply stream is closed and the dispatch has
\* nothing left to hand over, no sink of that dispatch is in tasks_sinks, even
\* when the executor that got the task has gone away without answering.
C12_NoSinkOutlivesReplyStream ==
    \A t \in DOMAIN tasks_sinks :
        ~ /\ ~launch[tasks_sinks[t]].open
          /\ DispatchSettled(tasks_sinks[t])
          /\ ExecutorGone(t)

\* the inbox ch has been replaced: its client_id is connected through another one
Replaced(ch) ==
    /\ chan[ch].client_id \in DOMAIN executors
    /\ executors[chan[ch].client_id] # ch

\* C13: the connected map holds for a client_id the inbox of its newest
\* session, and no step puts a payload into an inbox that has been replaced
\* by a reconnection of its client_id.
C13_OldInboxSendsFail ==
    /\ [](\A c \in DOMAIN executors :
            \A ch \in DOMAIN chan :
                chan[ch].client_id = c => ch <= executors[c])
    /\ [][\A ch \in DOMAIN chan :
            Replaced(ch) => Len(chan'[ch].q) <= Len(chan[ch].q)]_vars

\* C14: once the commander has closed its LaunchTask stream nothing is added
\* to the reply stream of the dispatch; a TaskExecution handler of the
\* dispatch that takes an event of its request stream after that stops; a
\* child is killed only after the TaskExecution call of its task has
\* returned, and no child runs once do_execute_task has returned.
C14_Cancellation ==
    /\ [][\A d \in DOMAIN launch :
            ~launch[d].open => launch'[d].stream = launch[d].stream]_vars
    /\ [][\A t \in DOMAIN tasks :
            (/\ tasks[t].rpc = "open"
             /\ ~launch[tasks[t].d].open
             /\ tasks[t].ev # <<>>
             /\ tasks'[t].ev # tasks[t].ev
             /\ tasks'[t].made = tasks[t].made)
            => tasks'[t].rpc \notin {"none", "open"}]_vars
    /\ [][\A t \in DOMAIN tasks :
            (tasks[t].child # "killed" /\ tasks'[t].child = "killed")
            => (tasks[t].child = "running" /\ tasks[t].rpc \in {"ok", "err"})]_vars
    /\ [](\A t \in DOMAIN tasks :
            tasks[t].fin => tasks[t].child \in {"exited", "killed"})

\* the commander left while the command ran, the relay stopped at the next
\* event and the executor killed the child
C14_Witness ==
    \E t \in DOMAIN tasks :
        /\ ~launch[tasks[t].d].open
        /\ tasks[t].rpc = "ok"
        /\ tasks[t].fin
        /\ tasks[t].child = "killed"
        /\ Len(tasks[t].made) >
              Cardinality({i \in DOMAIN launch[tasks[t].d].stream :
                              ~launch[tasks[t].d].stream[i].synth})

\* the kinds of a sequence of events
Kinds(s) == [i \in DOMAIN s |-> s[i].kind]

\* the events forwarded from executor c on the reply stream of dispatch d
ForwardedFrom(d, c) ==
    SelectSeq(launch[d].stream, LAMBDA e : ~e.synth /\ e.client_id = c)

\* C15: while the commander is connected, the events forwarded from an
\* executor are, in order and once each, the events the executor has put on
\* the TaskExecution stream of its task and the handler has taken; and a
\* reply stream that has ended has no sender left: the fan-out is over, no
\* payload of the dispatch waits in an inbox, no sink of it is in tasks_sinks
\* and no TaskExecution call relays into it.
C15_RelayedOnceUntilDrained ==
    /\ \A t \in DOMAIN tasks :
          (launch[tasks[t].d].open /\ tasks[t].rpc \in {"none", "open", "ok"})
          => Kinds(ForwardedFrom(tasks[t].d, chan[tasks[t].ch].client_id))
                \o Kinds(tasks[t].ev) = Kinds(tasks[t].made)
    /\ \A d \in DOMAIN launch :
          launch[d].ended =>
             /\ launch[d].pc = "done"
             /\ DispatchSettled(d)
             /\ \A t \in DOMAIN tasks_sinks : tasks_sinks[t] # d

\* a command ran to its end, both of its events were relayed and the reply
\* stream ended after the last sender was dropped
C15_Witness ==
    \E t \in DOMAIN tasks :
        /\ launch[tasks[t].d].ended
        /\ tasks[t].rpc = "ok"
        /\ Len(tasks[t].made) = 2
        /\ Len(ForwardedFrom(tasks[t].d, chan[tasks[t].ch].client_id)) = 2

\* C16: the reply stream of a LaunchTask call that reached the fan-out starts
\* with a MatchingExecutors frame and holds no other one, and when the call
\* creates the stream that frame lists the known executors whose metadata
\* evaluate to Match for the predicate, connected or not.
C16_MatchingExecutorsFirst ==
    /\ [](\A d \in DOMAIN launch :
            /\ launch[d].stream # <<>>
            /\ \A i \in DOMAIN launch[d].stream :
                  (launch[d].stream[i].kind = "MatchingExecutors") <=> (i = 1))
    /\ [][Len(launch') > Len(launch) =>
            LET r == launch'[Len(launch')]
            IN  /\ Len(r.stream) = 1
                /\ r.stream[1].ids =
                      {c \in DOMAIN executor_meta_database :
                          qmatches_meta(executor_meta_database[c], r.p.arg.q) = Match}]_vars

\* a frame that lists a known executor that is not connected next to one that
\* is, followed by the events of both
C16_Witness ==
    \E d \in DOMAIN launch :
        /\ launch[d].pc = "done"
        /\ \E c \in launch[d].stream[1].ids : launch[d].senders[c] = 0
        /\ \E c \in launch[d].stream[1].ids : launch[d].senders[c] # 0
        /\ Len(launch[d].stream) = 3

\* what the metadata of executor c evaluate to for query q
ResultFor(c, q) == qmatches_meta(ExecutorMeta(c, TagsOf(c)), q)

\* C17: an executor whose metadata do not evaluate to Match for the predicate
\* of a LaunchTask is not listed in its MatchingExecutors frame, is not sent
\* to and has no payload of it in an inbox; a DropExecutor works only on
\* executors that evaluate to Match for its query, and a step removes an
\* executor from the known or the connected map only for such a query.
C17_OnlyMatchSelects ==
    /\ [](\A d \in DOMAIN launch, c \in Clients :
            ResultFor(c, launch[d].p.arg.q) # Match =>
               /\ c \notin launch[d].stream[1].ids
               /\ c \notin DOMAIN launch[d].senders
               /\ \A ch \in DOMAIN chan :
                     chan[ch].client_id = c =>
                        \A i \in DOMAIN chan[ch].q : chan[ch].q[i].d # d)
    /\ [](\A c \in drop.todo : ResultFor(c, drop.p.arg.q) = Match)
    /\ [][\A c \in Clients :
            (\/ c \in DOMAIN executor_meta_database
                  /\ c \notin DOMAIN executor_meta_database'
             \/ c \in DOMAIN executors /\ c \notin DOMAIN executors')
            => (drop.pc = "run" /\ ResultFor(c, drop.p.arg.q) = Match)]_vars

\* a LaunchTask whose predicate rejects a connected executor has been served,
\* and a DropExecutor whose query does not match a known executor is at work
C17_Witness ==
    /\ \E d \in DOMAIN launch, c \in DOMAIN executors :
          /\ ResultFor(c, launch[d].p.arg.q) = Rejected
          /\ launch[d].pc = "done"
          /\ launch[d].stream[1].ids # {}
    /\ drop.pc = "run"
    /\ \E c \in DOMAIN executor_meta_database \cap DOMAIN executors :
          ResultFor(c, drop.p.arg.q) \in {NoMatch, Rejected}

\* C18: a TaskExecution call whose task id has no sink in tasks_sinks is
\* answered NotFound and changes neither a reply stream nor the sinks; and an
\* event is added to a reply stream as forwarded only by the call that holds
\* the sink of its task, out of its own request stream.
C18_NoSinkNotFound ==
    /\ [][\A t \in DOMAIN tasks \cup {UnknownTaskId} :
            (/\ t \notin DOMAIN tasks_sinks
             /\ task_execution(t) \/ task_execution_repeated(t))
            => /\ reply'.op = "TaskExecution"
               /\ reply'.status = "NotFound"
               /\ launch' = launch
               /\ tasks_sinks' = tasks_sinks]_vars
    /\ [][\A d \in DOMAIN launch :
            (/\ Len(launch'[d].stream) > Len(launch[d].stream)
             /\ ~Last(launch'[d].stream).synth)
            => \E t \in DOMAIN tasks :
                  /\ tasks[t].d = d
                  /\ tasks[t].rpc = "open"
                  /\ tasks[t].ev # <<>>
                  /\ tasks'[t].ev = Tail(tasks[t].ev)]_vars

\* a second TaskExecution call for a task whose first call is relaying to a
\* connected commander has been answered NotFound
C18_Witness ==
    /\ reply.op = "TaskExecution"
    /\ reply.status = "NotFound"
    /\ \E t \in reply.body \cap DOMAIN tasks :
          /\ tasks[t].rpc = "open"
          /\ launch[tasks[t].d].open

\* the states the commander holds when it has read the whole reply stream of d
FinalStates(d) == do_handle_cmd(launch[d].stream, Len(launch[d].stream))

\* C19: the first GetTasks of an executor whose client_id is in neither key
\* store puts the key it presents into unapproved and admits no session; an
\* ApproveExecutorKey for its client_id or for "*" moves that key to trusted;
\* and when the reply stream of a LaunchTask with predicate * that listed the
\* executor has ended, the commander holds the state Success for it.
C19_TofuFlow ==
    /\ [][\A c \in TofuExecutors :
            (/\ c \notin DOMAIN trusted_executor_keystore
             /\ c \notin DOMAIN unapproved_executor_keystore
             /\ get_tasks(c, ExecutorKey[c], ExecutorKey[c], PROTOCOL_VERSION))
            => /\ c \in DOMAIN unapproved_executor_keystore'
               /\ unapproved_executor_keystore'[c] = ExecutorKey[c]
               /\ c \notin DOMAIN trusted_executor_keystore'
               /\ executors' = executors]_vars
    /\ [][\A c \in TofuExecutors, id \in TofuExecutors \cup {"*"} :
            (/\ c \in DOMAIN unapproved_executor_keystore
             /\ id \in {c, "*"}
             /\ admin(LaunchPayload("ApproveExecutorKey", Arg(NoQuery, id),
                                    Admin, now)))
            => /\ c \in DOMAIN trusted_executor_keystore'
               /\ trusted_executor_keystore'[c] = unapproved_executor_keystore[c]
               /\ c \notin DOMAIN unapproved_executor_keystore']_vars
    /\ [](\A d \in DOMAIN launch :
            \A c \in launch[d].stream[1].ids :
               launch[d].ended =>
                  /\ \E t \in DOMAIN tasks :
                        tasks[t].d = d /\ chan[tasks[t].ch].client_id = c
                  /\ FinalStates(d)[c] = "Success")

\* the client ids a DropExecutor response reports
Reported(body) == {e.client_id : e \in body}

\* the request ListConnectedExecutors("*") of an administrator
ListConnectedAll ==
    LaunchPayload("ListConnectedExecutors", Arg(Wildcard, ""), Admin, now)

\* C20: a DropExecutor selects the known executors whose metadata evaluate to
\* Match for its query; for each of them it removes the id from the known map
\* and then from the connected map and changes no other entry of either map;
\* its response has one entry for each selected id, which tells whether the
\* id was in the known map and in the connected map when it was removed; and
\* a ListConnectedExecutors("*") answered after the response lists a dropped
\* id only if a GetTasks session of it was admitted after its removal.
C20_DropExecutor ==
    /\ [][(drop.pc = "idle" /\ drop'.pc = "run") =>
            /\ drop'.todo = {c \in DOMAIN executor_meta_database :
                                ResultFor(c, drop'.p.arg.q) = Match}
            /\ drop'.done = {}]_vars
    /\ [][\A c \in Clients :
            admin_drop_known(c) =>
               /\ c \notin DOMAIN executor_meta_database'
               /\ \A x \in Clients \ {c} :
                     /\ (x \in DOMAIN executor_meta_database)
                           <=> (x \in DOMAIN executor_meta_database')
                     /\ x \in DOMAIN executor_meta_database =>
                           executor_meta_database'[x] = executor_meta_database[x]
               /\ executors' = executors]_vars
    /\ [][admin_drop_connected =>
            LET c == drop.cur
                acc == IF drop'.pc = "idle" THEN reply'.body ELSE drop'.done
            IN  /\ c \notin DOMAIN executors'
                /\ \A x \in Clients \ {c} :
                      /\ (x \in DOMAIN executors) <=> (x \in DOMAIN executors')
                      /\ x \in DOMAIN executors => executors'[x] = executors[x]
                /\ executor_meta_database' = executor_meta_database
                /\ acc = drop.done \cup
                      {[client_id |-> c, removed_from_known |-> drop.rk,
                        removed_from_connected |-> c \in DOMAIN executors]}
                /\ c \notin Reported(drop.done)
                /\ (drop'.pc = "idle") <=> (drop.todo = {c})
                /\ drop'.pc = "run" => drop'.todo = drop.todo \ {c}]_vars
    /\ [][\A c \in Clients :
            (drop.pc = "run" /\ drop.cur = "" /\ drop'.cur = c)
            => (drop'.rk <=> c \in DOMAIN executor_meta_database)]_vars
    /\ [][(drop.pc = "idle" /\ admin(ListConnectedAll)) =>
            \A c \in reply'.body \cap DOMAIN drop.cut :
                executors[c] > drop.cut[c]]_vars

\* C20 as stated: a ListConnectedExecutors("*") answered after the response
\* of a DropExecutor lists none of the executors it dropped.
C20_ListsNoneOfDropped ==
    [][(drop.pc = "idle" /\ admin(ListConnectedAll)) =>
          reply'.body \cap DOMAIN drop.cut = {}]_vars

\* a DropExecutor has dropped both executors, and the
\* ListConnectedExecutors("*") answered after it is empty although the
\* session of a dropped executor is still open
C20_Witness ==
    /\ drop.pc = "idle"
    /\ DOMAIN drop.cut = Clients
    /\ reply.op = "Admin"
    /\ reply.status = "Ok"
    /\ reply.p.kind = "ListConnectedExecutors"
    /\ reply.body = {}
    /\ \E ch \in DOMAIN chan :
          chan[ch].st = "open" /\ exe[chan[ch].owner].ch = ch

\* C21: a restart of the server leaves the connected map empty, and when no
\* registration and no drop is in progress the known map after the restart
\* is the known map before it.
C21_KnownMapDurable ==
    [][server_restart =>
          /\ DOMAIN executors' = {}
          /\ RegistryQuiescent => executor_meta_database' = executor_meta_database]_vars

\* C22: a GetTasks handshake whose client_protocol_version differs from the
\* server's PROTOCOL_VERSION is refused: it opens no session and changes neither
\* the connected nor the known map, and when the key is trusted and the envelope
\* verifies its status is FailedPrecondition.
C22_VersionMismatchRefused ==
    [][\A pk \in {ExecutorKey["e1"], RotatedKey}, signer \in {ExecutorKey["e1"], RotatedKey},
          ver \in Versions \ {PROTOCOL_VERSION} :
          get_tasks("e1", pk, signer, ver) =>
             /\ executors' = executors
             /\ executor_meta_database' = executor_meta_database
             /\ chan' = chan
             /\ reply'.op = "GetTasks"
             /\ reply'.status # "Ok"
             /\ ( /\ key_trusted(trusted_executor_keystore, unapproved_executor_keystore,
                                 "e1", pk)
                  /\ decode_payload(trusted_executor_keystore,
                                    RegisterExecutorRequest("e1", signer, ver), now) = "Ok" )
                => reply'.status = "FailedPrecondition"]_vars

\* a handshake with a trusted key and another protocol version was answered
C22_Witness ==
    /\ reply.op = "GetTasks"
    /\ reply.status = "FailedPrecondition"
    /\ reply.p.ver # PROTOCOL_VERSION
    /\ has_key(trusted_executor_keystore, "e1", reply.pk)

\* C23: a verification at an instant whose whole second is after valid_until_secs
\* fails with ExpiredSignature whatever the key id, the signature and the key
\* store are, and a verification that succeeds happened at a second not after
\* valid_until_secs.
C23_ExpiredNeverAccepted ==
    reply.op = "decode_payload" =>
        /\ as_secs(reply.body.verified_at) > reply.p.valid_until
              => reply.status = "ExpiredSignature"
        /\ reply.status = "Ok"
              => as_secs(reply.body.verified_at) <= reply.p.valid_until

\* an envelope of an unknown key was verified one second after valid_until_secs
C23_Witness ==
    /\ reply.op = "decode_payload"
    /\ reply.body.verified_at = from_secs(reply.p.valid_until + 1)
    /\ verify_signature(reply.body.db, reply.p.key_id, reply.p.signer) = "KeyNotFound"
    /\ reply.status = "ExpiredSignature"

\* C24: an envelope signed with a key whose public key the store holds, and
\* verified less than its validity after it was signed, verifies and decodes
\* to the message that was signed.
C24_RoundTrip ==
    ( /\ reply.op = "decode_payload"
      /\ has_key(reply.body.db, reply.p.key_id, reply.p.signer)
      /\ reply.body.verified_at - reply.body.signed_at < reply.body.validity )
    => /\ reply.status = "Ok"
       /\ decoded(reply.p) = reply.body.m

\* the results of the clauses of a conjunction or disjunction on the subject x
ClauseResults(x, cs) == {qmatches(x, cs[i]) : i \in 1..Len(cs)}

\* C25: on a string or a map, Not turns Match into Rejected and NoMatch and
\* Rejected into Match; And is Rejected if a clause is Rejected, else NoMatch if
\* a clause is NoMatch, else Match; Or is Match if a clause is Match, else
\* Rejected if a clause is Rejected, else NoMatch.
C25_Combinators ==
    (reply.op = "qmatches" /\ reply.body.x.t # "List") =>
        LET x == reply.body.x
            q == reply.body.q
            r == reply.status
        IN  /\ q.t = "Not" =>
                  LET o == qmatches(x, q.q)
                  IN  /\ o = Match => r = Rejected
                      /\ o = NoMatch => r = Match
                      /\ o = Rejected => r = Match
            /\ q.t = "And" =>
                  r = IF Rejected \in ClauseResults(x, q.cs) THEN Rejected
                      ELSE IF NoMatch \in ClauseResults(x, q.cs) THEN NoMatch
                      ELSE Match
            /\ q.t = "Or" =>
                  r = IF Match \in ClauseResults(x, q.cs) THEN Match
                      ELSE IF Rejected \in ClauseResults(x, q.cs) THEN Rejected
                      ELSE NoMatch

\* a conjunction with a NoMatch clause before a Rejected one was evaluated
C25_Witness ==
    /\ reply.op = "qmatches"
    /\ reply.body.x = TagValue("prod")
    /\ reply.body.q = And(<<Pattern("qa"), Not(Pattern("prod"))>>)
    /\ reply.status = Rejected

\* the results the test meta_match and the specification give for siderant
SiderantExpected ==
    { <<Wildcard, Match>>,
      <<Pattern("siderant"), Match>>,
      <<FieldPattern("env", Pattern("prod")), Match>>,
      <<FieldPattern("roles", Pattern("foo")), Match>>,
      <<FieldPattern("os", FieldPattern("type", Pattern("Linux"))), Match>>,
      <<And(<<FieldPattern("env", Pattern("prod")), Pattern("siderant")>>), Match>>,
      <<Pattern("prod"), NoMatch>>,
      <<FieldPattern("env", Pattern("dev")), NoMatch>>,
      <<FieldPattern("os", FieldPattern("type", Pattern("Windows"))), NoMatch>>,
      <<And(<<FieldPattern("env", Pattern("prod")), Not(Pattern("siderant"))>>),
        Rejected>> }

\* C26: on the metadata of an executor a bare pattern gives Match exactly when it
\* is the client_id and NoMatch otherwise, a field pattern gives what its
\* sub-query gives on the tag of that name and NoMatch when there is no such
\* tag, the wildcard gives Match, and siderant gets the listed results.
C26_ExecutorMetaMatching ==
    reply.op = "meta_qmatches" =>
        LET meta == reply.body.meta
            q == reply.body.q
            r == reply.status
        IN  /\ q.t = "Pattern" =>
                  r = IF q.s = meta.client_id THEN Match ELSE NoMatch
            /\ q.t = "FieldPattern" =>
                  r = IF q.f \in DOMAIN meta.tags
                      THEN qmatches(meta.tags[q.f], q.q) ELSE NoMatch
            /\ q.t = "Wildcard" => r = Match
            /\ \A e \in SiderantExpected :
                  (meta = Siderant /\ q = e[1]) => r = e[2]

\* siderant was matched against `env:prod and !siderant`
C26_Witness ==
    /\ reply.op = "meta_qmatches"
    /\ reply.body.meta = Siderant
    /\ reply.body.q = And(<<FieldPattern("env", Pattern("prod")), Not(Pattern("siderant"))>>)
    /\ reply.status = Rejected

\* C27: on a list, a conjunction with a clause Not(pattern) is Rejected when an
\* element of the list is that pattern; on the list foo, bar, prod the queries
\* `!foo and bar` and `prod and !prod` are Rejected, `prod or !prod` is Match
\* and `!prod` is Rejected.
C27_ListNegation ==
    (reply.op = "qmatches" /\ reply.body.x.t = "List") =>
        LET l == reply.body.x.l
            q == reply.body.q
            r == reply.status
        IN  /\ ( /\ q.t = "And"
                  /\ \E i \in 1..Len(q.cs) :
                        /\ q.cs[i].t = "Not"
                        /\ q.cs[i].q.t = "Pattern"
                        /\ \E j \in 1..Len(l) : l[j] = TagValue(q.cs[i].q.s) )
                => r = Rejected
            /\ reply.body.x = NonEmpty =>
                  /\ q = And(<<Not(Pattern("foo")), Pattern("bar")>>) => r = Rejected
                  /\ q = And(<<Pattern("prod"), Not(Pattern("prod"))>>) => r = Rejected
                  /\ q = Or(<<Pattern("prod"), Not(Pattern("prod"))>>) => r = Match
                  /\ q = Not(Pattern("prod")) => r = Rejected

\* `!foo and bar` was evaluated on the list foo, bar, prod
C27_Witness ==
    /\ reply.op = "qmatches"
    /\ reply.body.x = NonEmpty
    /\ reply.body.q = And(<<Not(Pattern("foo")), Pattern("bar")>>)
    /\ reply.status = Rejected

WordChars == AlphaNumerics \cup SPECIAL_AUTHORIZED_CHARS
LexicalChars == WordChars \cup Chars("*&|,!:()") \cup MultiSpace
\* an unquoted input with a character that belongs to no lexical atom
HasLexicalError(input) ==
    /\ "\"" \notin Chars(input)
    /\ \E c \in Chars(input) : c \notin LexicalChars

\* C29: parse returns Ok, ParseError or UnrecognizedInput; it returns a query
\* only when the grammar took the whole input, and the empty input, an input
\* with text left over and an input with a lexical error are errors.
C29_ParseErrors ==
    reply.op = "parse" =>
        /\ reply.status \in {"Ok", "ParseError", "UnrecognizedInput"}
        /\ reply.status = "Ok" =>
              reply.body.raw_ok /\ reply.body.consumed = Len(reply.body.input)
        /\ reply.body.input = "" => reply.status = "ParseError"
        /\ (reply.body.raw_ok /\ reply.body.consumed < Len(reply.body.input))
              => reply.status = "UnrecognizedInput"
        /\ HasLexicalError(reply.body.input) => reply.status # "Ok"

\* the patterns of a query
RECURSIVE PatternsOf(_)
PatternsOf(q) ==
    CASE q.t = "Pattern" -> {q.s}
      [] q.t \in {"FieldPattern", "Not"} -> PatternsOf(q.q)
      [] q.t \in {"And", "Or"} -> UNION {PatternsOf(q.cs[k]) : k \in 1..Len(q.cs)}
      [] OTHER -> {}

\* C30: a query parsed from an input without quotes has only patterns made of
\* alphanumerics and the characters -_@#. and `env:!prod` is not parsed.
C30_WordCharacters ==
    reply.op = "parse" =>
        /\ (reply.status = "Ok" /\ "\"" \notin Chars(reply.body.input))
              => \A w \in PatternsOf(reply.body.q) : Chars(w) \subseteq WordChars
        /\ reply.body.input = "env:!prod" => reply.status # "Ok"

\* the ids of the MatchingExecutors frame of a reply stream
MatchedOf(stream) ==
    UNION {stream[k].ids : k \in {j \in DOMAIN stream :
                                      stream[j].kind = "MatchingExecutors"}}

\* the state of executor c at the end of a reply stream: the one of its last
\* result, Matching without any
FinalStateOf(stream, c) ==
    LET mine == {k \in DOMAIN stream :
                    stream[k].kind # "MatchingExecutors" /\ stream[k].client_id = c}
    IN  IF mine = {} THEN "Matching"
        ELSE ExecutorState(stream[CHOOSE k \in mine : \A j \in mine : j <= k].kind,
                           "Matching")

\* the reply streams a commander has read to their end
EndedStreams == {launch[d].stream : d \in {x \in DOMAIN launch : launch[x].ended}}

\* C31: when the reply stream has ended, whatever the output options, the
\* commander exits with 0 only if at least one executor matched and every
\* matched executor ended in Success; with no match, or with a matched executor
\* that ended in another state, it exits with 1.
C31_ExitCode ==
    \A stream \in EndedStreams, raw \in BOOLEAN :
        LET code == exit_code(do_handle_cmd_options(stream, Len(stream), raw))
            matched == MatchedOf(stream)
        IN  /\ code \in {0, 1}
            /\ code = 0 =>
                  /\ matched # {}
                  /\ \A c \in matched : FinalStateOf(stream, c) = "Success"
            /\ (matched = {} \/ \E c \in matched : FinalStateOf(stream, c) # "Success")
                  => code = 1

\* a commander exits with 0 after the one matching executor succeeded
C31_Witness ==
    \E stream \in EndedStreams :
        /\ MatchedOf(stream) = {"e1"}
        /\ exit_code(do_handle_cmd(stream, Len(stream))) = 0

\* C32: opening a file-backed key store again gives the map the dropped store
\* held after its calls had completed, and a signature that verified against
\* the dropped store verifies against the new one.
C32_FileKeyStorePersistent ==
    [][file_keystore =>
          /\ keystore'.db = keystore.before
          /\ \A key_id \in {"abcd", "regular"}, signer \in {"kr", "kx"} :
                verify_signature(keystore.before, key_id, signer)
                   = verify_signature(keystore'.db, key_id, signer)]_vars

\* a store opened again holds a key registered through the previous handle
C32_Witness ==
    /\ keystore.open
    /\ keystore.before # EmptyMap
    /\ keystore.db = keystore.before
    /\ verify_signature(keystore.db, "abcd", "kr") = "Ok"

\* the lines of one stream among the events, and among what the shell wrote
LinesOf(events, ty) ==
    SelectSeq(events, LAMBDA e : e.kind = "LineEmitted" /\ e.ty = ty)
WrittenOn(written, ty) == SelectSeq(written, LAMBDA w : w[1] = ty)

\* the first event of a command is Started
StartedFirst ==
    exec.events # <<>> => exec.events[1] = Started

\* the lines of each stream come in the order the process wrote them, and
\* Finished comes with the exit code as the last event, after every line
LinesThenFinished ==
    /\ \A ty \in {"Out", "Err"} :
          /\ Len(LinesOf(exec.events, ty)) <= Len(WrittenOn(exec.written, ty))
          /\ \A k \in 1..Len(LinesOf(exec.events, ty)) :
                LinesOf(exec.events, ty)[k].line = WrittenOn(exec.written, ty)[k][2]
    /\ \A k \in DOMAIN exec.events :
          exec.events[k].kind = "Finished" =>
              /\ k = Len(exec.events)
              /\ exec.events[k].code = exec.code
              /\ exec.prog = <<>>
              /\ \A ty \in {"Out", "Err"} :
                    Len(LinesOf(exec.events, ty)) = Len(WrittenOn(exec.written, ty))
    /\ exec.st = "closed" => exec.events[Len(exec.events)].kind = "Finished"

\* C33: the events of a command are Started first, then the lines of each
\* stream in the order the process wrote them, then Finished with the exit
\* code as the last event, after every line.
C33_EventOrder == StartedFirst /\ LinesThenFinished

\* the executors the DropExecutor request has removed from the connected map
Dropped == DOMAIN drop.cut

\* the sessions admitted when c was removed from the connected map
SessionsAtDrop(c) == IF c \in Dropped THEN 1..drop.cut[c] ELSE {}

\* executor c is registered with its current metadata
Registered(c) ==
    /\ c \in DOMAIN executors
    /\ c \in DOMAIN executor_meta_database
    /\ executor_meta_database[c] = ExecutorMeta(c, TagsOf(c))

\* C34: once DropExecutor has removed an executor that is alive, the streams
\* of the sessions it had end, and the executor is eventually again in the
\* known map and in the connected map with its current metadata; a dropped
\* executor that is not alive stays out of both maps.
C34_DroppedExecutorReconnects ==
    /\ \A c \in AliveExecutors :
          [](c \in Dropped =>
                <>(/\ Registered(c)
                   /\ \A ch \in SessionsAtDrop(c) : chan[ch].st = "ended"))
    /\ \A c \in Clients \ AliveExecutors :
          [](c \in Dropped =>
                c \notin DOMAIN executors /\ c \notin DOMAIN executor_meta_database)

\* e1 was dropped while connected through session 1, that stream has ended and
\* e1 is registered again through session 2
C34_Witness ==
    /\ "e1" \in Dropped
    /\ drop.cut["e1"] = 1
    /\ chan[1].st = "ended"
    /\ Registered("e1")
    /\ executors["e1"] = 2

\* C35: a session is registered under client_id c only if the request was
\* sent as c, signed under the key id c with the trusted key of c; so the
\* inbox the connected map holds for c belongs to a session of the process
\* of c.
C35_SessionBelongsToSigner ==
    /\ \A ch \in DOMAIN chan :
          /\ chan[ch].outer = chan[ch].client_id
          /\ chan[ch].key_id = chan[ch].client_id
          /\ has_key(trusted_executor_keystore, chan[ch].client_id, chan[ch].signer)
    /\ \A c \in DOMAIN executors : chan[executors[c]].owner = c

\* C36: a TaskExecution call forwards a result to the commander only if the
\* caller, whose key signed the result, is the executor that pulled the task
\* id of the call, and the result names that executor's client_id.
C36_ResultsComeFromThePuller ==
    [][\A c \in Clients, t \in DOMAIN tasks, client_id \in Clients :
          (task_execution_by(c, t, client_id) /\ launch' # launch)
              => /\ c = chan[tasks[t].ch].owner
                 /\ client_id = chan[tasks[t].ch].client_id]_vars

\* C37: when a query evaluates to Match on the metadata of an executor, its
\* negation does not evaluate to Match on the same metadata.
C37_NotBothSelected ==
    (reply.op = "meta_qmatches" /\ reply.status = Match) =>
        qmatches_meta(reply.body.meta, Not(reply.body.q)) # Match

\* C38: on the metadata of an executor, a disjunction of two clauses whose
\* second clause evaluates to NoMatch evaluates to what the first clause
\* evaluates to on its own.
C38_OrWithNoMatchClause ==
    ( /\ reply.op = "meta_qmatches"
      /\ reply.body.q.t = "Or"
      /\ Len(reply.body.q.cs) = 2
      /\ qmatches_meta(reply.body.meta, reply.body.q.cs[2]) = NoMatch )
        => reply.status = qmatches_meta(reply.body.meta, reply.body.q.cs[1])

\* the executors that were handed the payload of dispatch d are through with
\* it: the handler has returned, and every payload of d in an inbox and every
\* task of d belongs to a session whose executor is gone, or the
\* TaskExecution call of the task has returned
HandedOverAndDone(d) ==
    IF d \notin DOMAIN launch THEN FALSE
    ELSE /\ launch[d].pc = "done"
         /\ \A ch \in DOMAIN chan :
               (\E i \in DOMAIN chan[ch].q : chan[ch].q[i].d = d)
                   => exe[chan[ch].owner].ch # ch
         /\ \A t \in DOMAIN tasks :
               tasks[t].d = d => (tasks[t].rpc \in {"ok", "err"} \/ ExecutorGone(t))

\* the reply stream of dispatch d has ended, or the commander has left
ReplyStreamClosed(d) ==
    IF d \notin DOMAIN launch THEN FALSE
    ELSE launch[d].ended \/ ~launch[d].open

\* C39: once every executor that was handed the task of a dispatch has
\* finished with it or is gone, the reply stream of the dispatch eventually
\* ends for a commander that keeps reading.
C39_ReplyStreamCloses ==
    \A d \in 1..MaxDispatches : HandedOverAndDone(d) ~> ReplyStreamClosed(d)

\* the codes of a Status that reports an error
ErrorCodes ==
    {"InvalidArgument", "NotFound", "PermissionDenied", "Internal",
     "Unauthenticated", "FailedPrecondition", "Unknown"}

\* C40: a TaskExecution call without the task_id metadata is answered with a
\* Status that reports an error, and it closes no stream of the server.
C40_MissingTaskIdIsAnError ==
    [][\A c \in Clients, torn \in BOOLEAN :
          task_execution_without_task_id(c, torn)
              => /\ reply'.status \in ErrorCodes
                 /\ chan' = chan]_vars

=============================================================================
